---- MODULE Spec2Model ----
(***************************************************************************)
(* A model of libwebp's lossy (VP8) frame pipeline, src/dec/frame_dec.c:   *)
(* VP8EnterCritical, VP8InitFrame, VP8ProcessRow, FinishRow and            *)
(* VP8ExitCritical, with the worker thread that runs FinishRow when        *)
(* mt_method > 0, and of PrecomputeFilterStrengths.                        *)
(*                                                                         *)
(* Samples are abstract.  A row of the ring cache holds the sequence of    *)
(* operations that produced it: <<"R", p, d>> is "reconstructed as pixel   *)
(* row p from the macroblock data parsed for row d", <<"F", y, f>> is      *)
(* "touched by the in-loop filter pass of macroblock row y, run with the   *)
(* filter strengths parsed for row f", <<"D", y, d>> is "dithered during   *)
(* row y with the amplitudes parsed for row d".  An empty sequence is      *)
(* memory nothing has written yet.                                         *)
(***************************************************************************)
EXTENDS Integers, Sequences, FiniteSets, TLC

\* ---------------------------------------------------------------- bounds
MaxMbH == 3          \* frames are 1..MaxMbH macroblock rows tall
MaxMbW == 1          \* and 1..MaxMbW macroblocks wide

\* ------------------------------------------------------ program constants
NUM_MB_SEGMENTS == 4
MT_CACHE_LINES == 3
ST_CACHE_LINES == 1
MaxLevel == 63       \* filter level clamp, and range of hdr->level
MaxSharpness == 7    \* range of hdr->sharpness
SizeofTopSamples == 32   \* sizeof(VP8TopSamples)
SizeofMB == 2            \* sizeof(VP8MB)
SizeofFInfo == 4         \* sizeof(VP8FInfo)
SizeofMBData == 800      \* sizeof(VP8MBData)
YUV_SIZE == 832          \* BPS * 17 + BPS * 9, BPS = 32
WEBP_ALIGN_CST == 31

\* kFilterExtraRows[filter_type]
kFilterExtraRows(filter_type) ==
  CASE filter_type = 0 -> 0
    [] filter_type = 1 -> 2
    [] filter_type = 2 -> 8

\* Luma rows above the macroblock that a filter pass writes: the simple
\* filter writes 1 sample across an edge, the complex filter up to 3.
FilterWrittenAbove(filter_type) ==
  CASE filter_type = 0 -> 0
    [] filter_type = 1 -> 1
    [] filter_type = 2 -> 3

MACROBLOCK_VPOS(mb_y) == mb_y * 16

Min(a, b) == IF a < b THEN a ELSE b
Max(a, b) == IF a > b THEN a ELSE b

\* Shr4 rounding up.
Shr4Up(x) == (x + 15) \div 16

\* x >> 4 on a C int (arithmetic shift: floor)
Shr4(x) == x \div 16

VARIABLES
  dec,          \* VP8Decoder: the fields the pipeline reads and writes
  io,           \* the caller's VP8Io
  ctx,          \* dec->thread_ctx (VP8ThreadContext), its io copy included
  worker,       \* dec->worker: [status, had_error]
  cache_y,      \* luma ring cache: row index (relative to dec->cache_y) -> sample
  cache_uv,     \* chroma ring cache (u and v are handled alike)
  mb_data_buf,  \* the halves of the VP8MBData allocation: which row was parsed into each
  f_info_buf,   \* the halves of the VP8FInfo allocation
  pc,           \* where the main context is
  ret,          \* the value the last call of the interface returned
  env,          \* the build and what the collaborators may do (fixed per run)
  hist,         \* what has been observed so far: put calls, alpha calls, teardowns, ...
  \* the lossless encoder's histogram clustering (src/enc/histogram_enc.c)
  orig_histo,         \* the per-tile histograms, a VP8LHistogramSet
  image_histo,        \* the clusters, a VP8LHistogramSet
  num_used,           \* the number of histograms of image_histo in use
  histo_queue,        \* the pair queue of the pass that is running
  histogram_symbols,  \* tile index -> cluster index
  henc                \* arguments, locals and position of VP8LGetHistoImageSymbols

decvars == <<dec, io, ctx, worker, cache_y, cache_uv, mb_data_buf, f_info_buf,
             pc, ret, env, hist>>

encvars == <<orig_histo, image_histo, num_used, histo_queue, histogram_symbols,
             henc>>

vars == <<dec, io, ctx, worker, cache_y, cache_uv, mb_data_buf, f_info_buf,
          pc, ret, env, hist,
          orig_histo, image_histo, num_used, histo_queue, histogram_symbols,
          henc>>


\* ------------------------------------------------------------ error state
\* VP8SetError: the first error sticks; the call's value is 0.
VP8SetError(d, error, msg) ==
  IF d.status = "OK"
  THEN [d EXCEPT !.status = error, !.error_msg = msg]
  ELSE d

\* ------------------------------------------------- filter strength tables
\* The initial level of segment s.
BaseLevel(d, s) ==
  IF d.segment_hdr.use_segment
  THEN d.segment_hdr.filter_strength[s]
       + (IF ~d.segment_hdr.absolute_delta THEN d.filter_hdr.level ELSE 0)
  ELSE d.filter_hdr.level

ClampLevel(level) ==
  IF level < 0 THEN 0 ELSE IF level > MaxLevel THEN MaxLevel ELSE level

\* The level of segment s and mode i4x4 after the deltas and the clamp.
FilterLevel(d, s, i4x4) ==
  LET hdr == d.filter_hdr
      level == BaseLevel(d, s)
               + (IF hdr.use_lf_delta
                  THEN hdr.ref_lf_delta0 + (IF i4x4 = 1 THEN hdr.mode_lf_delta0 ELSE 0)
                  ELSE 0)
  IN  ClampLevel(level)

\* InnerLevel without the floor at 1.
InnerLevelNoFloor(level, sharpness) ==
  LET shifted == IF sharpness > 0
                 THEN (IF sharpness > 4 THEN level \div 4 ELSE level \div 2)
                 ELSE level
  IN  IF sharpness > 0 /\ shifted > 9 - sharpness
      THEN 9 - sharpness
      ELSE shifted

\* The interior limit for a level > 0.
InnerLevel(level, sharpness) ==
  LET shifted == IF sharpness > 0
                 THEN (IF sharpness > 4 THEN level \div 4 ELSE level \div 2)
                 ELSE level
      capped == IF sharpness > 0 /\ shifted > 9 - sharpness
                THEN 9 - sharpness
                ELSE shifted
  IN  IF capped < 1 THEN 1 ELSE capped

\* One VP8FInfo (four uint8_t fields) as PrecomputeFilterStrengths leaves it;
\* info is what the entry held before.
FInfoFor(info, level, sharpness, i4x4) ==
  IF level > 0
  THEN LET ilevel == InnerLevel(level, sharpness)
       IN  [f_limit    |-> (2 * level + ilevel) % 256,
            f_ilevel   |-> ilevel % 256,
            f_inner    |-> i4x4,
            hev_thresh |-> IF level >= 40 THEN 2 ELSE IF level >= 15 THEN 1 ELSE 0]
  ELSE [info EXCEPT !.f_limit = 0, !.f_inner = i4x4]

PrecomputeFilterStrengths(d) ==
  IF d.filter_type > 0
  THEN [d EXCEPT !.fstrengths =
          [s \in 0..(NUM_MB_SEGMENTS - 1) |->
             [i4x4 \in 0..1 |->
                FInfoFor(d.fstrengths[s][i4x4], FilterLevel(d, s, i4x4),
                         d.filter_hdr.sharpness, i4x4)]]]
  ELSE d

\* ---------------------------------------------------------------- samples
Slot(n, id) == (n * id)..(n * id + n - 1)

\* ReconstructRow: the 16 luma and 8 chroma rows of slot ctx->id are written
\* from ctx->mb_data; md is the VP8MBData allocation.
ReconstructY(cy, c, md) ==
  [r \in DOMAIN cy |->
     IF r \in Slot(16, c.id)
     THEN << <<"R", 16 * c.mb_y + (r - 16 * c.id), md[c.mb_data]>> >>
     ELSE cy[r]]

ReconstructUV(cuv, c, md) ==
  [r \in DOMAIN cuv |->
     IF r \in Slot(8, c.id)
     THEN << <<"R", 8 * c.mb_y + (r - 8 * c.id), md[c.mb_data]>> >>
     ELSE cuv[r]]

\* The rows a filter pass may write: the slot, and across the top edge of the
\* macroblock row when there is a row above (mb_y > 0).
FilterRowsY(d, c) ==
  Slot(16, c.id) \cup
  (IF c.mb_y > 0
   THEN {16 * c.id - k : k \in 1..FilterWrittenAbove(d.filter_type)}
   ELSE {})

\* The simple filter leaves chroma alone.
FilterRowsUV(d, c) ==
  IF d.filter_type = 2
  THEN Slot(8, c.id) \cup
       (IF c.mb_y > 0
        THEN {8 * c.id - k : k \in 1..FilterWrittenAbove(d.filter_type)}
        ELSE {})
  ELSE {}

\* FilterRow: DoFilter on every macroblock of the row, with ctx->f_info; fi is
\* the VP8FInfo allocation.
FilterY(cy, d, c, fi) ==
  [r \in DOMAIN cy |->
     IF r \in FilterRowsY(d, c)
     THEN Append(cy[r], <<"F", c.mb_y, fi[c.f_info]>>)
     ELSE cy[r]]

FilterUV(cuv, d, c, fi) ==
  [r \in DOMAIN cuv |->
     IF r \in FilterRowsUV(d, c)
     THEN Append(cuv[r], <<"F", c.mb_y, fi[c.f_info]>>)
     ELSE cuv[r]]

\* DitherRow: the chroma of the slot, with the amplitudes in ctx->mb_data.
DitherUV(cuv, c, md) ==
  [r \in DOMAIN cuv |->
     IF r \in Slot(8, c.id)
     THEN Append(cuv[r], <<"D", c.mb_y, md[c.mb_data]>>)
     ELSE cuv[r]]

\* memcpy(dst, src, n rows) inside one plane
CopyRows(plane, dst, src, n) ==
  [r \in DOMAIN plane |->
     IF r \in dst..(dst + n - 1) THEN plane[src + (r - dst)] ELSE plane[r]]

\* The n rows a put callback can read from pointer p.
RowsAt(plane, p, n) ==
  [k \in 1..n |-> IF (p + k - 1) \in DOMAIN plane THEN plane[p + k - 1] ELSE <<>>]

\* ------------------------------------------------------------- FinishRow
\* YStart without the rows the previous row withheld.
YStartNoDelay(d, mb_y) == MACROBLOCK_VPOS(mb_y)

\* The range of pixel rows a row hands out before clipping at crop_top: the
\* bottom extra rows are withheld except on the last row, and the rows the
\* previous row withheld come first.
YStart(d, mb_y) ==
  IF mb_y = 0
  THEN MACROBLOCK_VPOS(mb_y)
  ELSE MACROBLOCK_VPOS(mb_y) - kFilterExtraRows(d.filter_type)

\* YEnd without the clip at crop_bottom.
YEndUnclipped(d, theio, mb_y) ==
  IF mb_y >= d.br_mb_y - 1
  THEN MACROBLOCK_VPOS(mb_y + 1)
  ELSE MACROBLOCK_VPOS(mb_y + 1) - kFilterExtraRows(d.filter_type)

YEnd(d, theio, mb_y) ==
  LET is_last_row == mb_y >= d.br_mb_y - 1
      y_end == IF is_last_row
               THEN MACROBLOCK_VPOS(mb_y + 1)
               ELSE MACROBLOCK_VPOS(mb_y + 1) - kFilterExtraRows(d.filter_type)
  IN  IF y_end > theio.crop_bottom THEN theio.crop_bottom ELSE y_end

\* A FinishRow that never rotates the top samples.
NeverRotate(d, c) == FALSE

\* Whether the slot just finished is the last of the ring and its bottom rows
\* must be carried to the top of slot 0.
MustRotate(d, c) ==
  (c.id + 1 = d.num_caches) /\ ~(c.mb_y >= d.br_mb_y - 1)

\* FinishRowOk with the answer of put dropped.
FinishRowOkPutIgnored(alpha_failed, emit, put_ok) == ~alpha_failed

\* The value FinishRow returns: 0 when alpha decoding failed, what put
\* answered when it was called, 1 otherwise.
FinishRowOk(alpha_failed, emit, put_ok) ==
  IF alpha_failed THEN FALSE ELSE IF emit THEN put_ok ELSE TRUE

\* FinishRow(dec, io) for the row in ctx, on the cache planes cy and cuv and
\* the parsed data md and fi, with observations h.  alpha_ok and put_ok are
\* what VP8DecompressAlphaRows and the put callback answer if they are called.
\* The result holds the return value and everything the call changed; abort
\* is an assertion failing in a build that compiles assertions in.
FinishRow(d, c, theio, cy, cuv, md, fi, h, alpha_ok, put_ok) ==
  LET cache_id == c.id
      extra_y_rows == kFilterExtraRows(d.filter_type)
      ydst == 16 * cache_id - extra_y_rows
      udst == 8 * cache_id - (extra_y_rows \div 2)
      mb_y == c.mb_y
      is_first_row == (mb_y = 0)
      \* ReconstructRow (mt_method = 2), FilterRow, DitherRow
      cy1 == IF d.mt_method = 2 THEN ReconstructY(cy, c, md) ELSE cy
      cuv1 == IF d.mt_method = 2 THEN ReconstructUV(cuv, c, md) ELSE cuv
      cy2 == IF c.filter_row THEN FilterY(cy1, d, c, fi) ELSE cy1
      cuv2 == IF c.filter_row THEN FilterUV(cuv1, d, c, fi) ELSE cuv1
      cuv3 == IF d.dither THEN DitherUV(cuv2, c, md) ELSE cuv2
      \* the put section
      y_start0 == YStart(d, mb_y)
      y_end == YEnd(d, theio, mb_y)
      y0 == IF is_first_row THEN 16 * cache_id ELSE ydst
      u0 == IF is_first_row THEN 8 * cache_id ELSE udst
      alpha_called == theio.put /\ d.alpha_data /\ y_start0 < y_end
      alpha_failed == alpha_called /\ ~alpha_ok
      a0 == IF alpha_called /\ alpha_ok THEN y_start0 ELSE -1
      clip == theio.put /\ ~alpha_failed /\ y_start0 < theio.crop_top
      delta_y == theio.crop_top - y_start0
      assert_failed == clip /\ (delta_y % 2 # 0)
      abort == assert_failed /\ ~env.ndebug
      y_start == IF clip THEN theio.crop_top ELSE y_start0
      y1 == IF clip THEN y0 + delta_y ELSE y0
      u1 == IF clip THEN u0 + (delta_y \div 2) ELSE u0
      a1 == IF clip /\ a0 # -1 THEN a0 + delta_y ELSE a0
      emit == theio.put /\ ~alpha_failed /\ ~abort /\ y_start < y_end
      io1 == IF ~theio.put \/ abort THEN theio
             ELSE IF alpha_failed THEN [theio EXCEPT !.y = y0, !.u = u0, !.a = -1]
             ELSE IF ~emit THEN [theio EXCEPT !.y = y1, !.u = u1, !.a = a1]
             ELSE [theio EXCEPT !.y = y1, !.u = u1, !.a = a1,
                                !.y_col = theio.crop_left,
                                !.u_col = theio.crop_left \div 2,
                                !.mb_y = y_start - theio.crop_top,
                                !.mb_w = theio.crop_right - theio.crop_left,
                                !.mb_h = y_end - y_start]
      the_put == [row  |-> mb_y,
                  mb_y |-> io1.mb_y, mb_w |-> io1.mb_w, mb_h |-> io1.mb_h,
                  y_col |-> io1.y_col, u_col |-> io1.u_col, a |-> io1.a,
                  y  |-> RowsAt(cy2, io1.y, io1.mb_h),
                  uv |-> RowsAt(cuv3, io1.u, (io1.mb_h + 1) \div 2),
                  ok |-> put_ok]
      ok == FinishRowOk(alpha_failed, emit, put_ok)
      \* rotate top samples if needed (not reached when alpha decoding failed)
      rotate == ~alpha_failed /\ ~abort /\ MustRotate(d, c)
      cy3 == IF rotate
             THEN CopyRows(cy2, 0 - extra_y_rows, ydst + 16, extra_y_rows)
             ELSE cy2
      cuv4 == IF rotate
              THEN CopyRows(cuv3, 0 - (extra_y_rows \div 2), udst + 8, extra_y_rows \div 2)
              ELSE cuv3
  IN  [ok    |-> ok,
       abort |-> abort,
       dec   |-> IF alpha_failed
                 THEN VP8SetError(d, "BITSTREAM_ERROR", "Could not decode alpha data.")
                 ELSE d,
       io    |-> io1,
       cy    |-> cy3,
       cuv   |-> cuv4,
       hist  |-> [h EXCEPT
                   !.finished = Append(@, mb_y),
                   !.alpha = IF alpha_called
                             THEN Append(@, [row |-> y_start0, num_rows |-> y_end - y_start0,
                                             ok |-> alpha_ok])
                             ELSE @,
                   !.asserts = IF assert_failed THEN @ \cup {"delta_y"} ELSE @,
                   !.puts = IF emit THEN Append(@, the_put) ELSE @]]

\* ------------------------------------------------------------- the worker
\* WebPWorkerInterface: Sync blocks until the job has ended and answers
\* whether any job has failed so far; Launch starts the hook (FinishRow).
SyncReady(w) == w.status # "WORK"
SyncResult(w) == ~w.had_error
Launch(w) == [w EXCEPT !.status = "WORK"]

\* VP8ProcessRow and VP8ExitCritical finish the previous job before going on;
\* VP8ProcessRow launches a new job only if no job has failed.
ProcessRowNoWait == TRUE
ProcessRowWaits == SyncReady(worker)
ProcessRowSyncIgnored == TRUE
ProcessRowSyncOk == SyncResult(worker)
ExitCriticalNoWait == TRUE
ExitCriticalWaits == SyncReady(worker)

\* ----------------------------------------------------------- initial state
NoFInfo == [f_limit |-> 0, f_ilevel |-> 0, f_inner |-> 0, hev_thresh |-> 0]

\* A decoder whose headers have been parsed: frame f, filter header fh,
\* segment header sh.
NewDecoder(f, fh, sh) ==
  [status |-> "OK", error_msg |-> "",
   mt_method |-> f.mt_method, filter_type |-> f.filter_type,
   mb_w |-> f.mb_w, mb_h |-> f.mb_h,
   dither |-> f.dither, alpha_data |-> f.alpha,
   filter_hdr |-> fh, segment_hdr |-> sh,
   fstrengths |-> [s \in 0..(NUM_MB_SEGMENTS - 1) |-> [i \in 0..1 |-> NoFInfo]],
   cache_id |-> 0, num_caches |-> 0, mb_y |-> 0,
   tl_mb_x |-> 0, tl_mb_y |-> 0, br_mb_x |-> 0, br_mb_y |-> 0,
   f_info |-> -1, mb_data |-> 0, mem_size |-> f.mem_size,
   cache_y_stride |-> 0, cache_uv_stride |-> 0]

NewIo(f) ==
  [width |-> 16 * f.mb_w, height |-> 16 * f.mb_h,
   crop_left |-> f.crop.left, crop_right |-> f.crop.right,
   crop_top |-> f.crop.top, crop_bottom |-> f.crop.bottom,
   bypass_filtering |-> f.bypass,
   setup |-> f.setup, put |-> f.put, teardown |-> f.teardown,
   mb_y |-> 0, mb_w |-> 0, mb_h |-> 0,
   y |-> 0, u |-> 0, a |-> -1, y_col |-> 0, u_col |-> 0]

NoHist ==
  [puts |-> <<>>, alpha |-> <<>>, finished |-> <<>>, asserts |-> {},
   teardowns |-> <<>>, calls |-> <<>>, launched |-> <<>>,
   retried |-> FALSE, init_ret |-> -1, exits |-> 0]

\* The encoder's variables while the decoder is the program under study.
EncoderIdle ==
  /\ orig_histo = <<>>
  /\ image_histo = <<>>
  /\ num_used = 0
  /\ histo_queue = <<>>
  /\ histogram_symbols = <<>>
  /\ henc = <<>>

\* A run is a frame with its headers and an environment.
InitWith(runs) ==
  \E run \in runs :
    LET f == run.frame
        fh == run.filter_hdr
        sh == run.segment_hdr
        e == run.env
    IN
    /\ dec = NewDecoder(f, fh, sh)
    /\ io = NewIo(f)
    /\ ctx = [id |-> 0, mb_y |-> 0, filter_row |-> FALSE, f_info |-> -1,
              mb_data |-> 0, io |-> NewIo(f)]
    /\ worker = [status |-> "NOT_OK", had_error |-> FALSE]
    /\ cache_y = <<>>
    /\ cache_uv = <<>>
    /\ mb_data_buf = <<>>
    /\ f_info_buf = <<>>
    /\ pc = "enter"
    /\ ret = -1
    /\ env = e
    /\ hist = NoHist
    /\ EncoderIdle

\* What a collaborator may answer: anything when the run allows faults.
Outcomes == IF env.faults THEN BOOLEAN ELSE {TRUE}

\* ------------------------------------------------------- VP8EnterCritical
\* The macroblock area to filter and decode, from the crop rectangle.
FilterBounds(d, theio) ==
  LET extra_pixels == kFilterExtraRows(d.filter_type)
      tl_x == IF d.filter_type = 2 THEN 0
              ELSE Max(0, Shr4(theio.crop_left - extra_pixels))
      tl_y == IF d.filter_type = 2 THEN 0
              ELSE Max(0, Shr4(theio.crop_top - extra_pixels))
      br_y == Shr4(theio.crop_bottom + 15 + extra_pixels)
      br_x == Shr4(theio.crop_right + 15 + extra_pixels)
  IN  [d EXCEPT !.tl_mb_x = tl_x, !.tl_mb_y = tl_y,
                !.br_mb_x = Min(br_x, d.mb_w), !.br_mb_y = Min(br_y, d.mb_h)]

VP8EnterCritical ==
  /\ pc = "enter"
  /\ UNCHANGED encvars
  /\ \E setup_ok \in Outcomes :
       IF io.setup /\ ~setup_ok
       THEN /\ dec' = VP8SetError(dec, "INVALID_PARAM", "Frame setup failed")
            /\ ret' = 0
            /\ pc' = "done"
       ELSE /\ dec' = PrecomputeFilterStrengths(
                        FilterBounds(
                          IF io.bypass_filtering THEN [dec EXCEPT !.filter_type = 0]
                          ELSE dec, io))
            /\ ret' = 1
            /\ pc' = "init"
  /\ UNCHANGED <<io, ctx, worker, cache_y, cache_uv, mb_data_buf, f_info_buf, env, hist>>

\* ----------------------------------------------------------- VP8InitFrame
\* InitThreadContext: the worker is reset and the ring is sized.
NumCaches(d) ==
  IF d.mt_method > 0
  THEN (IF d.filter_type > 0 THEN MT_CACHE_LINES ELSE MT_CACHE_LINES - 1)
  ELSE ST_CACHE_LINES

\* The bytes AllocateMemory asks for.
Needed(d) ==
  LET intra_pred_mode_size == 4 * d.mb_w
      top_size == SizeofTopSamples * d.mb_w
      mb_info_size == (d.mb_w + 1) * SizeofMB
      f_info_size == IF d.filter_type > 0
                     THEN d.mb_w * (IF d.mt_method > 0 THEN 2 ELSE 1) * SizeofFInfo
                     ELSE 0
      mb_data_size == (IF d.mt_method = 2 THEN 2 ELSE 1) * d.mb_w * SizeofMBData
      cache_height == ((16 * d.num_caches + kFilterExtraRows(d.filter_type)) * 3) \div 2
      cache_size == top_size * cache_height
      alpha_size == IF d.alpha_data THEN (16 * d.mb_w) * (16 * d.mb_h) ELSE 0
  IN  intra_pred_mode_size + top_size + mb_info_size + f_info_size + YUV_SIZE
      + mb_data_size + cache_size + alpha_size + WEBP_ALIGN_CST

\* AllocateMemory with one VP8MBData and one VP8FInfo row for both contexts.
AllocateMemoryOneHalf(d, c, size_ok, malloc_ok) ==
  LET needed == Needed(d)
      grow == needed > d.mem_size
      f_info == IF d.filter_type > 0 THEN 0 ELSE -1
  IN  IF ~size_ok THEN [ok |-> FALSE, dec |-> d, ctx |-> c]
      ELSE IF grow /\ ~malloc_ok
      THEN [ok |-> FALSE,
            dec |-> VP8SetError([d EXCEPT !.mem_size = 0], "OUT_OF_MEMORY",
                                "no memory during frame initialization."),
            ctx |-> c]
      ELSE [ok |-> TRUE,
            dec |-> [d EXCEPT !.mem_size = IF grow THEN needed ELSE @,
                              !.f_info = f_info,
                              !.mb_data = 0,
                              !.cache_y_stride = 16 * d.mb_w,
                              !.cache_uv_stride = 8 * d.mb_w,
                              !.cache_id = 0],
            ctx |-> [c EXCEPT !.id = 0,
                              !.f_info = f_info,
                              !.mb_data = 0]]

\* AllocateMemory: [ok, dec, ctx].  size_ok is CheckSizeOverflow's answer,
\* malloc_ok whether WebPSafeMalloc finds the memory.
AllocateMemory(d, c, size_ok, malloc_ok) ==
  LET needed == Needed(d)
      grow == needed > d.mem_size
      f_info == IF d.filter_type > 0 THEN 0 ELSE -1
  IN  IF ~size_ok THEN [ok |-> FALSE, dec |-> d, ctx |-> c]
      ELSE IF grow /\ ~malloc_ok
      THEN [ok |-> FALSE,
            dec |-> VP8SetError([d EXCEPT !.mem_size = 0], "OUT_OF_MEMORY",
                                "no memory during frame initialization."),
            ctx |-> c]
      ELSE [ok |-> TRUE,
            dec |-> [d EXCEPT !.mem_size = IF grow THEN needed ELSE @,
                              !.f_info = f_info,
                              !.mb_data = 0,
                              !.cache_y_stride = 16 * d.mb_w,
                              !.cache_uv_stride = 8 * d.mb_w,
                              !.cache_id = 0],
            ctx |-> [c EXCEPT !.id = 0,
                              !.f_info = IF d.filter_type > 0 /\ d.mt_method > 0
                                         THEN f_info + 1 ELSE f_info,
                              !.mb_data = IF d.mt_method = 2 THEN 1 ELSE 0]]

\* InitIo: the pointers of io are set to the start of the cache.
InitIo(theio) ==
  [theio EXCEPT !.mb_y = 0, !.y = 0, !.u = 0, !.a = -1, !.y_col = 0, !.u_col = 0]

\* The planes of the ring cache: extra rows above slot 0, then the slots.
NewPlane(extra, rows) == [r \in (0 - extra)..(rows - 1) |-> <<>>]

VP8InitFrame ==
  /\ pc = "init"
  /\ UNCHANGED encvars
  /\ \E reset_ok \in Outcomes, size_ok \in Outcomes, malloc_ok \in Outcomes :
       LET d1 == [dec EXCEPT !.cache_id = 0]
           d2 == [d1 EXCEPT !.num_caches = NumCaches(dec)]
           m == AllocateMemory(d2, ctx, size_ok, malloc_ok)
           extra == kFilterExtraRows(dec.filter_type)
       IN  IF dec.mt_method > 0 /\ ~reset_ok
           THEN /\ dec' = VP8SetError(d1, "OUT_OF_MEMORY", "thread initialization failed.")
                /\ worker' = [worker EXCEPT !.had_error = FALSE]
                /\ UNCHANGED <<io, ctx, cache_y, cache_uv, mb_data_buf, f_info_buf>>
                /\ ret' = 0
           ELSE /\ worker' = IF dec.mt_method > 0
                             THEN [status |-> "OK", had_error |-> FALSE]
                             ELSE worker
                /\ dec' = m.dec
                /\ ctx' = m.ctx
                /\ ret' = IF m.ok THEN 1 ELSE 0
                /\ IF m.ok
                   THEN /\ io' = InitIo(io)
                        /\ cache_y' = NewPlane(extra, 16 * d2.num_caches)
                        /\ cache_uv' = NewPlane(extra \div 2, 8 * d2.num_caches)
                        /\ mb_data_buf' = [b \in 0..(IF dec.mt_method = 2 THEN 1 ELSE 0) |-> -1]
                        /\ f_info_buf' = IF dec.filter_type > 0
                                         THEN [b \in 0..(IF dec.mt_method > 0 THEN 1 ELSE 0) |-> -1]
                                         ELSE <<>>
                   ELSE UNCHANGED <<io, cache_y, cache_uv, mb_data_buf, f_info_buf>>
  /\ pc' = IF ret' = 1 THEN "parse" ELSE "exit"
  /\ hist' = [hist EXCEPT !.init_ret = ret']
  /\ UNCHANGED env

\* -------------------------------------------------------------- the parser
\* The caller's loop parses macroblock row dec->mb_y into dec->mb_data and,
\* when the frame is filtered, its filter strengths into dec->f_info.
ParseRow ==
  /\ pc = "parse"
  /\ UNCHANGED encvars
  /\ \E parse_ok \in Outcomes :
       IF parse_ok
       THEN /\ mb_data_buf' = [mb_data_buf EXCEPT ![dec.mb_data] = dec.mb_y]
            /\ f_info_buf' = IF dec.filter_type > 0
                             THEN [f_info_buf EXCEPT ![dec.f_info] = dec.mb_y]
                             ELSE f_info_buf
            /\ pc' = "row"
            /\ UNCHANGED dec
       ELSE /\ dec' = VP8SetError(dec, "NOT_ENOUGH_DATA",
                                  "Premature end-of-file encountered.")
            /\ pc' = "exit"
            /\ UNCHANGED <<mb_data_buf, f_info_buf>>
  /\ UNCHANGED <<io, ctx, worker, cache_y, cache_uv, ret, env, hist>>

\* ---------------------------------------------------------- VP8ProcessRow
FilterRowWanted(d) ==
  (d.filter_type > 0) /\ (d.mb_y >= d.tl_mb_y) /\ (d.mb_y <= d.br_mb_y)

\* RowContext without the update of ctx->mb_y.
RowContextStale(c, d) ==
  [c EXCEPT !.filter_row = FilterRowWanted(d)]

\* The context of the row about to be finished.
RowContext(c, d) ==
  [c EXCEPT !.mb_y = d.mb_y, !.filter_row = FilterRowWanted(d)]

\* What a call of VP8ProcessRow was given and did: work is whether it
\* reconstructed a row or launched a job.
CallRecord(r, work, next_cache_id) ==
  [mb_y |-> dec.mb_y, ret |-> r, status |-> dec.status,
   had_error |-> worker.had_error, work |-> work,
   cache_id |-> dec.cache_id, next_cache_id |-> next_cache_id]

\* mt_method = 0: reconstruct, then FinishRow, in the calling context.
ProcessRowSerial ==
  /\ pc = "row"
  /\ UNCHANGED encvars
  /\ dec.mt_method = 0
  /\ \E alpha_ok \in Outcomes, put_ok \in Outcomes :
       LET c1 == RowContext(ctx, dec)
           r == FinishRow(dec, c1, io, ReconstructY(cache_y, c1, mb_data_buf),
                          ReconstructUV(cache_uv, c1, mb_data_buf),
                          mb_data_buf, f_info_buf, hist, alpha_ok, put_ok)
       IN  /\ ctx' = c1
           /\ dec' = r.dec
           /\ io' = r.io
           /\ cache_y' = r.cy
           /\ cache_uv' = r.cuv
           /\ ret' = IF r.ok THEN 1 ELSE 0
           /\ pc' = IF r.abort THEN "aborted" ELSE "ret"
           /\ hist' = [r.hist EXCEPT
                        !.calls = Append(@, CallRecord(IF r.ok THEN 1 ELSE 0, TRUE,
                                                      dec.cache_id))]
  /\ UNCHANGED <<worker, mb_data_buf, f_info_buf, env>>

\* mt_method > 0: Sync, then the context of the new job is filled in.  A
\* failed job makes the call return 0 here.
ProcessRowBegin ==
  /\ pc = "row"
  /\ UNCHANGED encvars
  /\ dec.mt_method > 0
  /\ ProcessRowWaits
  /\ IF ProcessRowSyncOk
     THEN /\ ctx' = [RowContext(ctx, dec) EXCEPT
                      !.io = io, !.id = dec.cache_id,
                      !.mb_data = IF dec.mt_method = 2 THEN dec.mb_data ELSE @]
          /\ dec' = [dec EXCEPT !.mb_data = IF dec.mt_method = 2 THEN ctx.mb_data ELSE @]
          /\ pc' = IF dec.mt_method = 2 THEN "launch" ELSE "recon"
          /\ UNCHANGED <<ret, hist>>
     ELSE /\ ret' = 0
          /\ pc' = "ret"
          /\ hist' = [hist EXCEPT !.calls = Append(@, CallRecord(0, FALSE, dec.cache_id))]
          /\ UNCHANGED <<ctx, dec>>
  /\ UNCHANGED <<io, worker, cache_y, cache_uv, mb_data_buf, f_info_buf, env>>

\* mt_method = 1: the main context reconstructs the row into slot ctx->id.
ProcessRowReconstruct ==
  /\ pc = "recon"
  /\ UNCHANGED encvars
  /\ cache_y' = ReconstructY(cache_y, ctx, mb_data_buf)
  /\ cache_uv' = ReconstructUV(cache_uv, ctx, mb_data_buf)
  /\ pc' = "launch"
  /\ UNCHANGED <<dec, io, ctx, worker, mb_data_buf, f_info_buf, ret, env, hist>>

\* The filter strengths are swapped, the job is launched, the ring advances.
ProcessRowLaunch ==
  /\ pc = "launch"
  /\ UNCHANGED encvars
  /\ ctx' = [ctx EXCEPT !.f_info = IF ctx.filter_row THEN dec.f_info ELSE @]
  /\ dec' = [dec EXCEPT
              !.f_info = IF ctx.filter_row THEN ctx.f_info ELSE @,
              !.cache_id = IF dec.cache_id + 1 = dec.num_caches THEN 0
                           ELSE dec.cache_id + 1]
  /\ worker' = Launch(worker)
  /\ ret' = 1
  /\ pc' = "ret"
  /\ hist' = [hist EXCEPT
               !.calls = Append(@, CallRecord(1, TRUE, dec'.cache_id)),
               !.launched = Append(@, [mb_y |-> ctx.mb_y, id |-> ctx.id])]
  /\ UNCHANGED <<io, cache_y, cache_uv, mb_data_buf, f_info_buf, env>>

\* The worker thread runs the hook, FinishRow(dec, &ctx->io), and records a
\* failure in had_error.
WorkerRun ==
  /\ worker.status = "WORK"
  /\ UNCHANGED encvars
  /\ pc # "aborted"
  /\ \E alpha_ok \in Outcomes, put_ok \in Outcomes :
       LET r == FinishRow(dec, ctx, ctx.io, cache_y, cache_uv,
                          mb_data_buf, f_info_buf, hist, alpha_ok, put_ok)
       IN  /\ dec' = r.dec
           /\ ctx' = [ctx EXCEPT !.io = r.io]
           /\ cache_y' = r.cy
           /\ cache_uv' = r.cuv
           /\ hist' = r.hist
           /\ worker' = [status |-> "OK", had_error |-> worker.had_error \/ ~r.ok]
           /\ pc' = IF r.abort THEN "aborted" ELSE pc
  /\ UNCHANGED <<io, mb_data_buf, f_info_buf, ret, env>>

\* ------------------------------------------------------------- the caller
\* The decoding loop: a row that returned 1 is followed by the next one; on 0
\* the loop stops with a user abort.  A caller that does not stop (env.persist)
\* calls again for the next row.
Caller ==
  /\ pc = "ret"
  /\ UNCHANGED encvars
  /\ \E stop \in (IF ret = 0 /\ env.persist /\ dec.mb_y + 1 < dec.br_mb_y
                  THEN BOOLEAN ELSE {ret = 0}) :
       IF stop
       THEN /\ dec' = VP8SetError(dec, "USER_ABORT", "Output aborted.")
            /\ pc' = "exit"
            /\ UNCHANGED hist
       ELSE /\ dec' = [dec EXCEPT !.mb_y = @ + 1]
            /\ pc' = IF dec.mb_y + 1 < dec.br_mb_y THEN "parse" ELSE "exit"
            /\ hist' = [hist EXCEPT !.retried = @ \/ (ret = 0)]
  /\ UNCHANGED <<io, ctx, worker, cache_y, cache_uv, mb_data_buf, f_info_buf, ret, env>>

\* -------------------------------------------------------- VP8ExitCritical
VP8ExitCritical ==
  /\ pc = "exit"
  /\ UNCHANGED encvars
  /\ dec.mt_method > 0 => ExitCriticalWaits
  /\ ret' = IF dec.mt_method > 0 THEN (IF SyncResult(worker) THEN 1 ELSE 0) ELSE 1
  /\ hist' = [hist EXCEPT
               !.exits = @ + 1,
               !.teardowns = IF io.teardown
                             THEN Append(@, [busy |-> worker.status = "WORK",
                                             had_error |-> worker.had_error])
                             ELSE @]
  /\ pc' = "done"
  /\ UNCHANGED <<dec, io, ctx, worker, cache_y, cache_uv, mb_data_buf, f_info_buf, env>>

Next ==
  \/ VP8EnterCritical
  \/ VP8InitFrame
  \/ ParseRow
  \/ ProcessRowSerial
  \/ ProcessRowBegin
  \/ ProcessRowReconstruct
  \/ ProcessRowLaunch
  \/ WorkerRun
  \/ Caller
  \/ VP8ExitCritical

\* ------------------------------------------------------------ the frames
\* Decoding options, one variation at a time around the plain case.
PlainOptions ==
  [alpha |-> FALSE, dither |-> FALSE, bypass |-> FALSE,
   setup |-> TRUE, put |-> TRUE, teardown |-> TRUE, mem_size |-> 0]

OptionSets ==
  {PlainOptions,
   [PlainOptions EXCEPT !.alpha = TRUE],
   [PlainOptions EXCEPT !.dither = TRUE],
   [PlainOptions EXCEPT !.alpha = TRUE, !.dither = TRUE, !.mem_size = 1000000],
   [PlainOptions EXCEPT !.bypass = TRUE, !.setup = FALSE],
   [PlainOptions EXCEPT !.put = FALSE],
   [PlainOptions EXCEPT !.teardown = FALSE]}

Frame(mb_w, mb_h, filter_type, mt_method, crop, o) ==
  [mb_w |-> mb_w, mb_h |-> mb_h, filter_type |-> filter_type,
   mt_method |-> mt_method, crop |-> crop,
   alpha |-> o.alpha, dither |-> o.dither, bypass |-> o.bypass,
   setup |-> o.setup, put |-> o.put, teardown |-> o.teardown,
   mem_size |-> o.mem_size]

FullCrop(mb_w, mb_h) ==
  [left |-> 0, top |-> 0, right |-> 16 * mb_w, bottom |-> 16 * mb_h]

\* A crop with even offsets, as the decoding options produce them.
EvenCrop(mb_w, mb_h) ==
  [left |-> 2, top |-> 4, right |-> 16 * mb_w - 3, bottom |-> 16 * mb_h - 5]

PipelineFrames ==
  UNION {{Frame(MaxMbW, mb_h, ft, mt, crop, o) :
            ft \in 0..2, mt \in 0..2,
            crop \in {FullCrop(MaxMbW, mb_h), EvenCrop(MaxMbW, mb_h)},
            o \in OptionSets} :
         mb_h \in 1..MaxMbH}

PlainFilterHdr ==
  [simple |-> 0, level |-> 20, sharpness |-> 3, use_lf_delta |-> FALSE,
   ref_lf_delta0 |-> 0, mode_lf_delta0 |-> 0]

PlainSegmentHdr ==
  [use_segment |-> FALSE, absolute_delta |-> FALSE,
   filter_strength |-> [s \in 0..(NUM_MB_SEGMENTS - 1) |-> 0]]

Run(f, fh, sh, e) ==
  [frame |-> f, filter_hdr |-> fh, segment_hdr |-> sh, env |-> e]

\* The pipeline with every collaborator free to fail, in a build without
\* assertions, under a caller that may call again after a failed row.
PipelineRuns ==
  {Run(f, PlainFilterHdr, PlainSegmentHdr,
       [ndebug |-> TRUE, faults |-> TRUE, persist |-> TRUE]) :
     f \in PipelineFrames}

Init == InitWith(PipelineRuns)

Spec == Init /\ [][Next]_vars

\* ---------------------------------------------------------------- ordering
\* C1: in every threading mode the rows are finished in order 0, 1, 2, ..., one
\* at a time, and both the macroblock row and the io->mb_y of successive put
\* calls are strictly increasing.
PutsInRowOrder ==
  /\ \A i \in 1..Len(hist.finished) : hist.finished[i] = i - 1
  /\ \A i \in 1..(Len(hist.puts) - 1) :
       /\ hist.puts[i].row < hist.puts[i + 1].row
       /\ hist.puts[i].mb_y < hist.puts[i + 1].mb_y

\* Three rows have been put by worker jobs, the ring having advanced.
PutsInRowOrderWitness ==
  /\ dec.mt_method = 2
  /\ Len(hist.puts) >= 3
  /\ Len(hist.launched) >= 3
  /\ hist.puts[3].mb_y > hist.puts[2].mb_y

\* ------------------------------------------------------------- concurrency
\* The luma rows of the cache the main context is writing (ReconstructRow in
\* mt_method = 1), and those a running job may write: the slot ctx->id, the
\* rows across its top edge that the filter modifies, the rows the rotation
\* copies to.
MainWrites == IF pc = "recon" THEN Slot(16, ctx.id) ELSE {}

WorkerWrites ==
  IF worker.status = "WORK"
  THEN Slot(16, ctx.id)
       \cup {16 * ctx.id - k : k \in 1..kFilterExtraRows(dec.filter_type)}
       \cup (IF MustRotate(dec, ctx)
             THEN {0 - k : k \in 1..kFilterExtraRows(dec.filter_type)}
             ELSE {})
  ELSE {}

\* C2: in the threaded modes, while a job is running the main context writes
\* no row of the job's slot nor of the extra rows above it.
NoSharedSlotWrite ==
  dec.mt_method > 0 => (MainWrites \cap WorkerWrites = {})

\* The main context has parsed the third row and is held at the barrier while
\* the job of the second row runs on a ring of three slots.
NoSharedSlotWriteWitness ==
  /\ dec.mt_method = 1
  /\ dec.num_caches = 3
  /\ pc = "row"
  /\ worker.status = "WORK"
  /\ WorkerWrites # {}
  /\ Len(hist.launched) >= 2

\* ------------------------------------------------------------ cancellation
PutFailed(rows) == \E j \in 1..Len(hist.puts) : ~hist.puts[j].ok /\ hist.puts[j].row \in rows

\* C3: a put that answered false is the last put (under a caller that stops
\* on 0); in serial mode the call of that row returned 0; in the threaded
\* modes every later call returned 0 without launching a job or advancing
\* cache_id, and VP8ExitCritical returns 0.
PutFailureStopsPipeline ==
  /\ \A j \in 1..Len(hist.puts) :
       ~hist.puts[j].ok =>
          j = Len(hist.puts) \/ (dec.mt_method = 0 /\ hist.retried)
  /\ \A i \in 1..Len(hist.calls) :
       LET call == hist.calls[i] IN
       /\ (dec.mt_method = 0 /\ PutFailed({call.mb_y})) => call.ret = 0
       /\ (dec.mt_method > 0 /\ PutFailed(0..(call.mb_y - 1))) =>
             /\ call.ret = 0
             /\ ~call.work
             /\ call.next_cache_id = call.cache_id
  /\ (pc = "done" /\ hist.exits > 0 /\ dec.mt_method > 0 /\ PutFailed(0..dec.mb_h))
       => ret = 0

\* The put of the last launched row failed: every call had returned 1 and
\* VP8ExitCritical returned 0.
PutFailureStopsPipelineWitness ==
  /\ pc = "done"
  /\ dec.mt_method > 0
  /\ Len(hist.calls) >= 2
  /\ \A i \in 1..Len(hist.calls) : hist.calls[i].ret = 1
  /\ PutFailed({dec.br_mb_y - 1})
  /\ ret = 0

\* --------------------------------------------------------- bitstream errors
\* C4 as stated: in every threading mode, a call of VP8ProcessRow made after
\* a bitstream error was recorded returns 0 and does no work.
ErrorShortCircuitsEveryMode ==
  \A i \in 1..Len(hist.calls) :
     hist.calls[i].status = "BITSTREAM_ERROR" =>
        hist.calls[i].ret = 0 /\ ~hist.calls[i].work

\* C4 amended: in the threaded modes a call made after a bitstream error
\* returns 0 without reconstructing or launching, and no job runs any more;
\* in serial mode the failing call itself returns 0.
ErrorShortCircuitsThreaded ==
  /\ dec.mt_method > 0 =>
       /\ \A i \in 1..Len(hist.calls) :
            hist.calls[i].status = "BITSTREAM_ERROR" =>
               /\ hist.calls[i].ret = 0
               /\ ~hist.calls[i].work
               /\ hist.calls[i].next_cache_id = hist.calls[i].cache_id
       /\ dec.status = "BITSTREAM_ERROR" =>
            /\ worker.status # "WORK"
            /\ ~hist.alpha[Len(hist.alpha)].ok
  /\ (dec.mt_method = 0 /\ pc = "ret" /\ dec.status = "BITSTREAM_ERROR"
        /\ ~hist.retried) => ret = 0

\* A threaded call came after the error and returned 0.
ErrorShortCircuitsThreadedWitness ==
  /\ dec.mt_method > 0
  /\ \E i \in 1..Len(hist.calls) :
       hist.calls[i].status = "BITSTREAM_ERROR" /\ hist.calls[i].ret = 0

\* ----------------------------------------------------------------- teardown
\* C9: VP8ExitCritical calls teardown once per call when it is set, never
\* while a job is running, after a failed row as well; it returns what Sync
\* answered, 1 in serial mode.
TeardownOncePerExit ==
  /\ Len(hist.teardowns) = (IF io.teardown THEN hist.exits ELSE 0)
  /\ \A i \in 1..Len(hist.teardowns) : ~hist.teardowns[i].busy
  /\ (pc = "done" /\ hist.exits > 0) =>
       ret = (IF dec.mt_method > 0 /\ worker.had_error THEN 0 ELSE 1)

\* teardown ran after a job had failed, and VP8ExitCritical returned 0.
TeardownOncePerExitWitness ==
  /\ pc = "done"
  /\ dec.mt_method > 0
  /\ hist.exits = 1
  /\ Len(hist.teardowns) = 1
  /\ hist.teardowns[1].had_error
  /\ ret = 0

\* ------------------------------------------------------ VP8InitFrame errors
\* C10: whenever VP8InitFrame has returned 0, an error code and a message are
\* recorded on the decoder.
InitFrameFailureRecorded ==
  hist.init_ret = 0 => (dec.status # "OK" /\ dec.error_msg # "")

\* ---------------------------------------------------------- the crop space
\* A crop with odd offsets.
OddCrop(mb_w, mb_h) ==
  [left |-> 1, top |-> 1, right |-> 16 * mb_w - 1, bottom |-> 16 * mb_h - 1]

\* Every vertical crop of the shortest and of the tallest frame, one pixel
\* column cut on each side.
InsetCrops(mb_w, mb_h) ==
  UNION {{[left |-> 1, top |-> t, right |-> 16 * mb_w - 1, bottom |-> b] :
            b \in (t + 1)..(16 * mb_h)} :
         t \in 0..(16 * mb_h - 1)}

SerialCropFrames ==
  UNION {{Frame(MaxMbW, mb_h, ft, 0, crop, PlainOptions) :
            ft \in 0..2, crop \in InsetCrops(MaxMbW, mb_h)} :
         mb_h \in {1, MaxMbH}}

ThreadedCropFrames ==
  UNION {{Frame(MaxMbW, mb_h, ft, mt, crop, o) :
            ft \in 0..2, mt \in 1..2,
            crop \in {FullCrop(MaxMbW, mb_h), EvenCrop(MaxMbW, mb_h),
                      OddCrop(MaxMbW, mb_h)},
            o \in {PlainOptions, [PlainOptions EXCEPT !.dither = TRUE]}} :
         mb_h \in {1, MaxMbH}}

\* No collaborator fails; the build has assertions or not.
CropRuns ==
  {Run(f, PlainFilterHdr, PlainSegmentHdr,
       [ndebug |-> n, faults |-> FALSE, persist |-> FALSE]) :
     f \in SerialCropFrames \cup ThreadedCropFrames, n \in BOOLEAN}

InitCrop == InitWith(CropRuns)

SpecCrop == InitCrop /\ [][Next]_vars

IsBoundaryFrame ==
  /\ dec.mb_w = 1
  /\ dec.mb_h = 1
  /\ dec.filter_type = 1
  /\ io.crop_left = 1
  /\ io.crop_top = 1
  /\ io.crop_right = 15
  /\ io.crop_bottom = 15

RECURSIVE SumMbH(_)
SumMbH(puts) == IF puts = <<>> THEN 0 ELSE Head(puts).mb_h + SumMbH(Tail(puts))

RECURSIVE SerialRows(_, _, _, _, _, _, _)
SerialRows(d, c, theio, cy, cuv, h, y) ==
  IF y >= d.br_mb_y
  THEN h.puts
  ELSE LET d1 == [d EXCEPT !.mb_y = y]
           c1 == RowContext(c, d1)
           md == [b \in {0} |-> y]
           fi == [b \in {0} |-> y]
           r == FinishRow(d1, c1, theio, ReconstructY(cy, c1, md),
                          ReconstructUV(cuv, c1, md), md, fi, h, TRUE, TRUE)
       IN  IF r.abort THEN r.hist.puts
           ELSE SerialRows(r.dec, c1, r.io, r.cy, r.cuv, r.hist, y + 1)

SerialPuts ==
  LET d0 == [dec EXCEPT !.mt_method = 0, !.cache_id = 0]
      d1 == [d0 EXCEPT !.num_caches = NumCaches(d0)]
      m == AllocateMemory(d1, ctx, TRUE, TRUE)
      extra == kFilterExtraRows(dec.filter_type)
  IN  SerialRows(m.dec, m.ctx, InitIo([io EXCEPT !.mb_w = 0, !.mb_h = 0]),
                 NewPlane(extra, 16 * d1.num_caches),
                 NewPlane(extra \div 2, 8 * d1.num_caches), NoHist, 0)

Decoded == pc = "done" /\ hist.exits = 1 /\ dec.status = "OK"

\* C6: a frame decoded by a threaded pipeline (mt_method 1 or 2) has had the
\* puts of the serial pipeline: as many, with the same io->mb_y, mb_w, mb_h
\* and the same samples.
ThreadedMatchesSerial ==
  (Decoded /\ dec.mt_method > 0) => hist.puts = SerialPuts

\* The serial pipeline is the reference, and the pipeline that reconstructs
\* in the worker agrees with it.
SerialIsReference == (Decoded /\ dec.mt_method = 0) => hist.puts = SerialPuts
ReconstructingWorkerMatchesSerial ==
  (Decoded /\ dec.mt_method = 2) => hist.puts = SerialPuts
FilteringWorkerMatchesSerialUndithered ==
  (Decoded /\ dec.mt_method = 1 /\ ~dec.dither) => hist.puts = SerialPuts

\* ------------------------------------------------- the filter header space
\* Every level and sharpness, with the deltas off or at the ends and the
\* middle of their range (six bits and a sign).
DeltaValues == {-63, 0, 63}

FilterHdrs ==
  {[simple |-> 0, level |-> l, sharpness |-> sh, use_lf_delta |-> FALSE,
    ref_lf_delta0 |-> 0, mode_lf_delta0 |-> 0] :
     l \in 0..MaxLevel, sh \in 0..MaxSharpness}
  \cup
  {[simple |-> 0, level |-> l, sharpness |-> sh, use_lf_delta |-> TRUE,
    ref_lf_delta0 |-> r, mode_lf_delta0 |-> m] :
     l \in 0..MaxLevel, sh \in 0..MaxSharpness,
     r \in DeltaValues, m \in DeltaValues}

SegmentHdrs ==
  {PlainSegmentHdr,
   [use_segment |-> TRUE, absolute_delta |-> FALSE,
    filter_strength |-> [s \in 0..(NUM_MB_SEGMENTS - 1) |->
                           CASE s = 0 -> -63 [] s = 1 -> -1 [] s = 2 -> 1 [] OTHER -> 63]],
   [use_segment |-> TRUE, absolute_delta |-> TRUE,
    filter_strength |-> [s \in 0..(NUM_MB_SEGMENTS - 1) |->
                           CASE s = 0 -> 0 [] s = 1 -> 1 [] s = 2 -> 14 [] OTHER -> 63]]}

FilterRuns ==
  {Run(Frame(1, 1, ft, 0, FullCrop(1, 1), PlainOptions), fh, sh,
       [ndebug |-> TRUE, faults |-> FALSE, persist |-> FALSE]) :
     ft \in 1..2, fh \in FilterHdrs, sh \in SegmentHdrs}

InitFilter == InitWith(FilterRuns)

NextFilter == VP8EnterCritical

SpecFilter == InitFilter /\ [][NextFilter]_vars

\* C8: after PrecomputeFilterStrengths with filter_type > 0, for every segment
\* and both macroblock modes, f_limit is 0 exactly when the clamped level is 0;
\* otherwise f_limit is in 3..189, f_ilevel in 1..63 and hev_thresh in 0..2.
FilterStrengthsInRange ==
  (pc = "init" /\ dec.filter_type > 0) =>
    \A s \in 0..(NUM_MB_SEGMENTS - 1), i4x4 \in 0..1 :
      LET info == dec.fstrengths[s][i4x4]
          level == FilterLevel(dec, s, i4x4)
      IN  /\ (info.f_limit = 0) <=> (level = 0)
          /\ level # 0 => /\ info.f_limit \in 3..189
                          /\ info.f_ilevel \in 1..63
                          /\ info.hev_thresh \in 0..2

\* The tables hold the strongest and the disabled filter side by side, and a
\* level of 1 sharpened down to the floor.
FilterStrengthsWitness ==
  /\ pc = "init"
  /\ dec.filter_type > 0
  /\ dec.filter_hdr.sharpness = 0
  /\ \E s \in 0..(NUM_MB_SEGMENTS - 1) : dec.fstrengths[s][0].f_limit = 0
  /\ \E s \in 0..(NUM_MB_SEGMENTS - 1) : dec.fstrengths[s][1].f_limit = 189

\* The interior limit as a closed formula: the level shifted by the sharpness
\* and floored at 1, then capped at 9 - sharpness; capped tells whether the
\* cap applies when sharpness is 0.
ShiftedLevel(level, sharpness) ==
  IF sharpness > 0
  THEN Max(1, level \div (IF sharpness > 4 THEN 4 ELSE 2))
  ELSE level

CappedLevel(level, sharpness, capped) ==
  IF sharpness > 0 \/ capped
  THEN Min(ShiftedLevel(level, sharpness), 9 - sharpness)
  ELSE ShiftedLevel(level, sharpness)

\* Every entry of the tables with a level in 1..63 follows the formula.
StrengthsFollow(capped) ==
  (pc = "init" /\ dec.filter_type > 0) =>
    \A s \in 0..(NUM_MB_SEGMENTS - 1), i4x4 \in 0..1 :
      LET info == dec.fstrengths[s][i4x4]
          level == FilterLevel(dec, s, i4x4)
      IN  level \in 1..MaxLevel =>
            /\ info.f_ilevel = CappedLevel(level, dec.filter_hdr.sharpness, capped)
            /\ info.f_limit = 2 * level + info.f_ilevel
            /\ info.hev_thresh = (IF level >= 40 THEN 2 ELSE IF level >= 15 THEN 1 ELSE 0)
            /\ info.f_inner = i4x4

\* C22 as stated: for every level in 1..63 and sharpness in 0..7, f_ilevel is
\* min(x, 9 - sharpness), x being max(1, level >> (sharpness > 4 ? 2 : 1)) when
\* sharpness > 0 and level otherwise; f_limit = 2 * level + f_ilevel, hev_thresh
\* is 2 from level 40, 1 from level 15, else 0, and f_inner = is_i4x4.
StrengthsCappedAlways == StrengthsFollow(TRUE)

\* C22, amended: the cap at 9 - sharpness applies only when sharpness > 0; with
\* sharpness 0, f_ilevel is the level itself, up to 63.  The rest is as stated.
StrengthsCappedWhenSharp == StrengthsFollow(FALSE)

\* Sharpness 0 and a level above 9: the interior limit is the level, 63, and
\* the edge limit 189.
StrengthsCappedWhenSharpWitness ==
  /\ pc = "init"
  /\ dec.filter_type > 0
  /\ dec.filter_hdr.sharpness = 0
  /\ FilterLevel(dec, 0, 1) = 63
  /\ dec.fstrengths[0][1].f_ilevel = 63
  /\ dec.fstrengths[0][1].f_limit = 189
  /\ dec.fstrengths[0][1].hev_thresh = 2
  /\ dec.fstrengths[0][1].f_inner = 1

\* ------------------------------------------------------- the area to filter
BoundsMb == 2        \* frames of the area study are BoundsMb macroblocks wide and tall

\* Every horizontal crop of the full height, every vertical crop of the full
\* width.
StripCrops(mb_w, mb_h) ==
  UNION {{[left |-> l, top |-> 0, right |-> r, bottom |-> 16 * mb_h] :
            r \in (l + 1)..(16 * mb_w)} :
         l \in 0..(16 * mb_w - 1)}
  \cup
  UNION {{[left |-> 0, top |-> t, right |-> 16 * mb_w, bottom |-> b] :
            b \in (t + 1)..(16 * mb_h)} :
         t \in 0..(16 * mb_h - 1)}

BoundsRuns ==
  {Run(Frame(BoundsMb, BoundsMb, ft, 0, crop, PlainOptions),
       PlainFilterHdr, PlainSegmentHdr,
       [ndebug |-> TRUE, faults |-> FALSE, persist |-> FALSE]) :
     ft \in 0..2, crop \in StripCrops(BoundsMb, BoundsMb)}

InitBounds == InitWith(BoundsRuns)

NextBounds == VP8EnterCritical

SpecBounds == InitBounds /\ [][NextBounds]_vars

\* x / 16 rounded down, or up.
Sixteenths(x, up) == IF up THEN 0 - ((0 - x) \div 16) ELSE x \div 16

\* The area VP8EnterCritical has set: with the simple filter, from the crop
\* widened by the 2 extra pixels; with the complex filter, from the origin.
FilterAreaIs(up) ==
  pc = "init" =>
    /\ dec.filter_type = 1 =>
         /\ dec.tl_mb_x = Max(0, Sixteenths(io.crop_left - 2, FALSE))
         /\ dec.tl_mb_y = Max(0, Sixteenths(io.crop_top - 2, FALSE))
         /\ dec.br_mb_x = Min(dec.mb_w, Sixteenths(io.crop_right + 15 + 2, up))
         /\ dec.br_mb_y = Min(dec.mb_h, Sixteenths(io.crop_bottom + 15 + 2, up))
    /\ dec.filter_type = 2 => (dec.tl_mb_x = 0 /\ dec.tl_mb_y = 0)

\* C23 as stated: after VP8EnterCritical with the simple filter, for every crop
\* inside the frame, tl_mb_x = max(0, floor((crop_left - 2) / 16)) and
\* br_mb_x = min(mb_w, ceil((crop_right + 15 + 2) / 16)), likewise tl_mb_y and
\* br_mb_y from crop_top, crop_bottom and mb_h; with the complex filter
\* tl_mb_x = tl_mb_y = 0.
FilterAreaRoundedUp == FilterAreaIs(TRUE)

\* C23, amended: br_mb_x = min(mb_w, floor((crop_right + 15 + 2) / 16)) and
\* br_mb_y = min(mb_h, floor((crop_bottom + 15 + 2) / 16)): the quotient is
\* rounded down, the 15 being the rounding.  The rest is as stated.
FilterAreaFromCrop == FilterAreaIs(FALSE)

\* A crop that ends 14 rows down a frame of two macroblock rows, simple
\* filter: one row to decode, (14 + 17) >> 4, not two.
FilterAreaFromCropWitness ==
  /\ pc = "init"
  /\ dec.filter_type = 1
  /\ dec.mb_h >= 2
  /\ io.crop_top = 0
  /\ io.crop_bottom = 14
  /\ dec.tl_mb_y = 0
  /\ dec.br_mb_y = 1

\* ------------------------------------------------------- the ring of slots
RingMbH == 4        \* frames of the ring study are 1..RingMbH macroblock rows tall

\* A crop whose top lies below the first macroblock row.
LowCrop(mb_w, mb_h) ==
  [left |-> 0, top |-> 20, right |-> 16 * mb_w, bottom |-> 16 * mb_h]

RingFrames ==
  UNION {{Frame(MaxMbW, mb_h, ft, mt, crop, o) :
            ft \in 0..2, mt \in 0..2,
            crop \in {FullCrop(MaxMbW, mb_h)}
                      \cup (IF mb_h >= 2 THEN {LowCrop(MaxMbW, mb_h)} ELSE {}),
            o \in {PlainOptions, [PlainOptions EXCEPT !.alpha = TRUE]}} :
         mb_h \in 1..RingMbH}

RingRuns ==
  {Run(f, PlainFilterHdr, PlainSegmentHdr,
       [ndebug |-> TRUE, faults |-> TRUE, persist |-> TRUE]) :
     f \in RingFrames}

InitRing == InitWith(RingRuns)

SpecRing == InitRing /\ [][Next]_vars

\* A step in which FinishRow has run for a row that used the last slot.
FinishedLastSlot ==
  /\ Len(hist'.finished) = Len(hist.finished) + 1
  /\ ctx'.id + 1 = dec.num_caches

\* The FinishRow of the step returned early, alpha decoding having failed.
AlphaFailedInStep ==
  /\ Len(hist'.alpha) = Len(hist.alpha) + 1
  /\ ~hist'.alpha[Len(hist'.alpha)].ok

\* After the step the rows above slot 0 are the bottom rows of slot id.
SeedCopied ==
  /\ \A k \in 1..kFilterExtraRows(dec.filter_type) :
       cache_y'[0 - k] = cache_y'[16 * (ctx'.id + 1) - k]
  /\ \A k \in 1..(kFilterExtraRows(dec.filter_type) \div 2) :
       cache_uv'[0 - k] = cache_uv'[8 * (ctx'.id + 1) - k]

\* After the step the rows above slot 0 are what they were before it.
SeedUntouched ==
  /\ \A k \in 1..kFilterExtraRows(dec.filter_type) :
       cache_y'[0 - k] = cache_y[0 - k]
  /\ \A k \in 1..(kFilterExtraRows(dec.filter_type) \div 2) :
       cache_uv'[0 - k] = cache_uv[0 - k]

\* C20 as stated: whenever the row just finished used the last slot
\* (ctx->id + 1 == num_caches), the bottom extra_rows luma rows and the
\* extra_rows / 2 chroma rows of that slot have been copied above slot 0.
RingWrapCopiesSeed ==
  [][FinishedLastSlot => SeedCopied]_vars

\* C20, amended: when the row just finished used the last slot, is not the
\* last row to decode (mb_y < br_mb_y - 1) and FinishRow did not return
\* early on an alpha failure, the bottom extra_rows luma rows (0, 2 or 8) and
\* the extra_rows / 2 chroma rows of that slot have been copied above slot 0,
\* for num_caches 1, 2 and 3; after the last row, or on an alpha failure,
\* nothing is copied.
RingWrapCopiesSeedUnlessLast ==
  [][FinishedLastSlot =>
       IF AlphaFailedInStep \/ ctx'.mb_y >= dec.br_mb_y - 1
       THEN (dec.num_caches > 1 => SeedUntouched)
       ELSE SeedCopied]_vars

\* The third slot of a ring of three has just been finished and its bottom
\* rows, filtered, stand above slot 0.
RingWrapCopiesSeedWitness ==
  /\ dec.num_caches = 3
  /\ dec.filter_type = 2
  /\ dec.mb_h = 4
  /\ hist.finished = <<0, 1, 2>>
  /\ cache_y[0 - 1] # <<>>
  /\ \A k \in 1..8 : cache_y[0 - k] = cache_y[48 - k]
  /\ \A k \in 1..4 : cache_uv[0 - k] = cache_uv[24 - k]

\* ------------------------------------------------ alpha and the crop window
\* The pixel rows of macroblock row y that lie inside the crop window: what is
\* left of [y_start, y_end) after both clips.
ClippedStart(y) ==
  Max(io.crop_top, IF y = 0 THEN 0 ELSE 16 * y - kFilterExtraRows(dec.filter_type))

ClippedEnd(y) ==
  Min(io.crop_bottom,
      IF y >= dec.br_mb_y - 1 THEN 16 * (y + 1)
      ELSE 16 * (y + 1) - kFilterExtraRows(dec.filter_type))

AlphaFrame == io.put /\ dec.alpha_data /\ hist.init_ret = 1

\* C21 as stated: the range of a row is clipped against the whole crop window
\* before any alpha work, so VP8DecompressAlphaRows is called only for rows
\* with pixel rows inside the window, and a bitstream error comes only from
\* such a row.
ClipBeforeAlpha ==
  AlphaFrame =>
    /\ \A k \in 1..Len(hist.alpha) : ClippedStart(k - 1) < ClippedEnd(k - 1)
    /\ dec.status = "BITSTREAM_ERROR" =>
         \E k \in 1..Len(hist.alpha) :
           ~hist.alpha[k].ok /\ ClippedStart(k - 1) < ClippedEnd(k - 1)

\* C21, amended: the range of a row is clipped against crop_bottom before the
\* alpha work and against crop_top after it.  VP8DecompressAlphaRows is called
\* once for every finished row, with the rows from y_start (not clipped at
\* crop_top) to y_end (clipped at crop_bottom), a range that is never empty;
\* put is called exactly for the rows whose alpha was decoded and that have
\* pixel rows inside the window; a bitstream error comes only from a failed
\* alpha call, which may be that of a row lying entirely above crop_top.
AlphaBeforeCropTopClip ==
  AlphaFrame =>
    /\ Len(hist.alpha) = Len(hist.finished)
    /\ \A k \in 1..Len(hist.alpha) :
         LET a == hist.alpha[k]
             y == hist.finished[k]
         IN  /\ a.row = (IF y = 0 THEN 0 ELSE 16 * y - kFilterExtraRows(dec.filter_type))
             /\ a.row + a.num_rows = ClippedEnd(y)
             /\ a.num_rows > 0
             /\ (a.ok /\ ClippedStart(y) < ClippedEnd(y) /\ pc # "aborted")
                  <=> (\E j \in 1..Len(hist.puts) : hist.puts[j].row = y)
             /\ ~a.ok => dec.status # "OK"
    /\ dec.status = "BITSTREAM_ERROR" => \E k \in 1..Len(hist.alpha) : ~hist.alpha[k].ok

\* The first row lies entirely above crop_top; its alpha was asked for and
\* could not be decoded: a bitstream error, and no put.
AlphaBeforeCropTopClipWitness ==
  /\ AlphaFrame
  /\ dec.filter_type = 0
  /\ io.crop_top = 20
  /\ Len(hist.alpha) = 1
  /\ hist.alpha[1].row = 0
  /\ hist.alpha[1].num_rows = 16
  /\ ~hist.alpha[1].ok
  /\ hist.puts = <<>>
  /\ dec.status = "BITSTREAM_ERROR"

\* ------------------------------------------------------------- contiguity
\* C26: successive put calls are contiguous (under a caller that stops on 0):
\* the first put has io->mb_y = 0, each later put is that of the next
\* macroblock row and has io->mb_y equal to the previous put's
\* io->mb_y + io->mb_h, every put has mb_h > 0, and a put starts with the rows
\* the previous row withheld: its range runs from 16 * row - extra_rows (or
\* crop_top) to the end of the row less the extra_rows it withholds in turn
\* (or crop_bottom), and every luma and chroma row handed out is the
\* reconstruction of that pixel row, from the data of the macroblock row it
\* belongs to, whatever the filter type and the number of slots of the ring.
PutsContiguous ==
  ~hist.retried =>
    \A j \in 1..Len(hist.puts) :
      LET p == hist.puts[j]
          top == io.crop_top + p.mb_y
      IN  /\ p.mb_h > 0
          /\ j = 1 => p.mb_y = 0
          /\ j > 1 => /\ p.row = hist.puts[j - 1].row + 1
                      /\ p.mb_y = hist.puts[j - 1].mb_y + hist.puts[j - 1].mb_h
          /\ top = ClippedStart(p.row)
          /\ top + p.mb_h = ClippedEnd(p.row)
          /\ \A k \in 1..p.mb_h :
               /\ p.y[k] # <<>>
               /\ p.y[k][1] = <<"R", top + k - 1, (top + k - 1) \div 16>>
          /\ \A k \in 1..((p.mb_h + 1) \div 2) :
               /\ p.uv[k] # <<>>
               /\ p.uv[k][1] = <<"R", (top \div 2) + k - 1, ((top \div 2) + k - 1) \div 8>>

\* Four rows through a ring of three slots under the complex filter: the
\* fourth put, from slot 0 again, starts with the 8 rows withheld from the
\* third, which the wrap of the ring carried above slot 0.
PutsContiguousWitness ==
  /\ dec.num_caches = 3
  /\ dec.filter_type = 2
  /\ io.crop_top = 0
  /\ ~hist.retried
  /\ Len(hist.puts) = 4
  /\ hist.puts[3].mb_y + hist.puts[3].mb_h = 40
  /\ hist.puts[4].mb_y = 40
  /\ hist.puts[4].mb_h = 24
  /\ hist.puts[4].y[1][1] = <<"R", 40, 2>>
  /\ hist.puts[4].y[9][1] = <<"R", 48, 3>>

\* C27: the assertion assert(!(delta_y & 1)) of FinishRow holds in every call:
\* whenever a row's y_start lies above crop_top the distance crop_top - y_start
\* is even, for every crop, filter type and row, and no run stops on it.
DeltaYIsEven ==
  /\ "delta_y" \notin hist.asserts
  /\ pc # "aborted"

\* ------------------------------------------------- the per-row buffers
\* Whether the job launched for macroblock row y filters it.
FilterRowOf(y) ==
  (dec.filter_type > 0) /\ (y >= dec.tl_mb_y) /\ (y <= dec.br_mb_y)

\* The jobs that have passed Sync: the launched ones and the one being set up.
JobsBegun == Len(hist.launched) + (IF pc \in {"recon", "launch"} THEN 1 ELSE 0)

\* The launched jobs that swapped the filter strengths.
FilteringJobs == {k \in 1..Len(hist.launched) : FilterRowOf(hist.launched[k].mb_y)}

\* C19: in threaded decoding, once the frame memory is allocated, dec->mb_data
\* and thread_ctx.mb_data (mt_method = 2) and dec->f_info and
\* thread_ctx.f_info (filter_type > 0) are different halves of their
\* allocation; they change hands once per job, between Sync and Launch, and
\* at no other time; and a launched job finds in its halves the data and the
\* filter strengths that were parsed for its row.
RowBuffersNeverShared ==
  (hist.init_ret = 1 /\ dec.mt_method > 0) =>
    /\ dec.mt_method = 2 =>
         /\ dec.mb_data # ctx.mb_data
         /\ {dec.mb_data, ctx.mb_data} = {0, 1}
         /\ dec.mb_data = JobsBegun % 2
    /\ dec.filter_type > 0 =>
         /\ dec.f_info # ctx.f_info
         /\ {dec.f_info, ctx.f_info} = {0, 1}
         /\ dec.f_info = Cardinality(FilteringJobs) % 2
    /\ worker.status = "WORK" =>
         /\ dec.mt_method = 2 => mb_data_buf[ctx.mb_data] = ctx.mb_y
         /\ ctx.filter_row => f_info_buf[ctx.f_info] = ctx.mb_y

\* The worker has yet to read row y while the main context has parsed
\* row y + 1 into the other halves.
RowBuffersNeverSharedWitness ==
  /\ dec.mt_method = 2
  /\ dec.filter_type > 0
  /\ worker.status = "WORK"
  /\ ctx.filter_row
  /\ pc = "row"
  /\ Len(hist.launched) >= 2
  /\ mb_data_buf[dec.mb_data] = ctx.mb_y + 1
  /\ f_info_buf[dec.f_info] = ctx.mb_y + 1
  /\ mb_data_buf[ctx.mb_data] = ctx.mb_y

\* ======================================================================
\* ReconstructRow sample by sample: the work area dec->yuv_b, where a
\* macroblock is predicted from the samples above it and on its left, and
\* the top band dec->yuv_t, which keeps the bottom edge of every column for
\* the row below.
\*
\* A sample is a constant the code writes, a sample of a reconstructed
\* macroblock (plane, mb_x, mb_y, column, row), or what allocated memory
\* holds before anything is written to it.
\* ======================================================================
ReconMbW == 3        \* frames of the reconstruction study: 1..ReconMbW wide
ReconMbH == 3        \* and 1..ReconMbH tall

Sample(v) == <<"const", v, 0, 0, 0>>
Pixel(plane, mb_x, mb_y, col, row) == <<plane, mb_x, mb_y, col, row>>
Indeterminate == <<"indeterminate", 0, 0, 0, 0>>

\* The samples of yuv_b the code touches around y_dst (16 x 16) and around
\* u_dst, v_dst (8 x 8): <<row, column>>, row -1 being the row above.
LumaArea == (-1..15) \X (-4..19)
ChromaArea == (-1..7) \X (-4..7)

\* The left-most block is set up: 129 down the left column; the corner is
\* 129 below the first row; on the first row the row above, from the corner
\* on, is 127 over width samples.
InitLeftMost(plane, n, mb_y, width) ==
  [p \in DOMAIN plane |->
     IF p[1] \in 0..(n - 1) /\ p[2] = -1 THEN Sample(129)
     ELSE IF p[1] = -1 /\ p[2] = -1 /\ mb_y > 0 THEN Sample(129)
     ELSE IF p[1] = -1 /\ mb_y = 0 /\ p[2] \in (-1)..(width - 2) THEN Sample(127)
     ELSE plane[p]]

\* The four right-most columns of the block just done become the left
\* samples, the row above included.
RotateLeft(plane, n) ==
  [p \in DOMAIN plane |->
     IF p[1] \in (-1)..(n - 1) /\ p[2] \in (-4)..(-1)
     THEN plane[<<p[1], p[2] + n>>]
     ELSE plane[p]]

\* A block whose row above is left as it was.
BringNothing(plane, n, band) == plane

\* memcpy(dst - BPS, top_yuv[0].*, n)
BringTop(plane, n, band) ==
  [p \in DOMAIN plane |->
     IF p[1] = -1 /\ p[2] \in 0..(n - 1) THEN band[p[2]] ELSE plane[p]]

\* Four samples above and right taken from the block's own band.
TopRightOfOwnColumn(yuv_t, mb_x, mb_w, col) == yuv_t[mb_x].y[col - 16]

\* The four samples above and right of an i4x4 macroblock below the first
\* row: the band of the next column, or the last sample of the block's own
\* band on the right border.
TopRightSample(yuv_t, mb_x, mb_w, col) ==
  IF mb_x >= mb_w - 1 THEN yuv_t[mb_x].y[15] ELSE yuv_t[mb_x + 1].y[col - 16]

\* The top-right samples are set and replicated 4, 8 and 12 rows below.
TopRight(y, yuv_t, mb_x, mb_y, mb_w) ==
  [p \in DOMAIN y |->
     IF p[2] \in 16..19 /\ p[1] \in {-1, 3, 7, 11}
     THEN (IF mb_y > 0 THEN TopRightSample(yuv_t, mb_x, mb_w, p[2])
           ELSE y[<<-1, p[2]>>])
     ELSE y[p]]

\* Prediction and residuals: the n x n samples of the block are those of the
\* reconstructed macroblock.
Predict(plane, n, name, mb_x, mb_y) ==
  [p \in DOMAIN plane |->
     IF p[1] \in 0..(n - 1) /\ p[2] \in 0..(n - 1)
     THEN Pixel(name, mb_x, mb_y, p[2], p[1])
     ELSE plane[p]]

\* Whether the bottom row of the block is stashed for the row below.
StashWanted(mb_y, mb_h) == mb_y < mb_h - 1

\* The bottom row of the block.
BottomRow(plane, n) == [c \in 0..(n - 1) |-> plane[<<n - 1, c>>]]

\* What a prediction reads around the block: the row above, the corner, the
\* left column and, for luma, the four samples above and right.
Borders(plane, n) ==
  [top |-> [c \in 0..(n - 1) |-> plane[<<-1, c>>]],
   top_left |-> plane[<<-1, -1>>],
   left |-> [r \in 0..(n - 1) |-> plane[<<r, -1>>]],
   top_right |-> [c \in 16..19 |->
                    IF <<-1, c>> \in DOMAIN plane THEN plane[<<-1, c>>]
                    ELSE Indeterminate]]

\* The block is copied to columns n * mb_x .. of the cache.
Transfer(cache, plane, n, mb_x) ==
  [p \in DOMAIN cache |->
     IF p[2] \in (n * mb_x)..(n * mb_x + n - 1)
     THEN plane[<<p[1], p[2] - n * mb_x>>]
     ELSE cache[p]]

\* Which macroblocks are coded as sixteen 4x4 blocks.
IsI4x4(kind, mb_x, mb_y) ==
  CASE kind = "all" -> TRUE
    [] kind = "none" -> FALSE
    [] OTHER -> (mb_x + mb_y) % 2 = 0

\* The VP8MBData of macroblock row mb_y.
ParsedRow(kind, mb_w, mb_y) ==
  [x \in 0..(mb_w - 1) |-> [is_i4x4 |-> IsI4x4(kind, x, mb_y)]]

InitRecon ==
  /\ \E mb_w \in 1..ReconMbW, mb_h \in 1..ReconMbH, kind \in {"all", "none", "mixed"} :
       /\ dec = [mb_w |-> mb_w, mb_h |-> mb_h,
                 yuv_b |-> [y |-> [p \in LumaArea |-> Indeterminate],
                            u |-> [p \in ChromaArea |-> Indeterminate],
                            v |-> [p \in ChromaArea |-> Indeterminate]],
                 yuv_t |-> [x \in 0..(mb_w - 1) |->
                              [y |-> [c \in 0..15 |-> Indeterminate],
                               u |-> [c \in 0..7 |-> Indeterminate],
                               v |-> [c \in 0..7 |-> Indeterminate]]]]
       /\ cache_y = [p \in (0..15) \X (0..(16 * mb_w - 1)) |-> Indeterminate]
       /\ cache_uv = [u |-> [p \in (0..7) \X (0..(8 * mb_w - 1)) |-> Indeterminate],
                      v |-> [p \in (0..7) \X (0..(8 * mb_w - 1)) |-> Indeterminate]]
       /\ mb_data_buf = ParsedRow(kind, mb_w, 0)
       /\ env = [i4x4 |-> kind]
  /\ ctx = [id |-> 0, mb_y |-> 0]
  /\ pc = [at |-> "row", mb_x |-> 0]
  /\ hist = [preds |-> <<>>, stashed |-> <<>>]
  /\ io = <<>>
  /\ worker = <<>>
  /\ f_info_buf = <<>>
  /\ ret = 0
  /\ EncoderIdle

\* ReconstructRow up to its loop: the left-most block is initialized.
ReconstructRowBegin ==
  /\ pc.at = "row"
  /\ dec' = [dec EXCEPT
               !.yuv_b = [y |-> InitLeftMost(dec.yuv_b.y, 16, ctx.mb_y, 16 + 4 + 1),
                          u |-> InitLeftMost(dec.yuv_b.u, 8, ctx.mb_y, 8 + 1),
                          v |-> InitLeftMost(dec.yuv_b.v, 8, ctx.mb_y, 8 + 1)]]
  /\ pc' = [at |-> "loop", mb_x |-> 0]
  /\ UNCHANGED <<io, ctx, worker, cache_y, cache_uv, mb_data_buf, f_info_buf,
                 ret, env, hist>>
  /\ UNCHANGED encvars

\* One turn of the loop of ReconstructRow, for macroblock mb_x.
ReconstructBlock ==
  /\ pc.at = "loop"
  /\ pc.mb_x < dec.mb_w
  /\ LET mb_x == pc.mb_x
         mb_y == ctx.mb_y
         block == mb_data_buf[mb_x]
         top_yuv == dec.yuv_t[mb_x]
         \* rotate in the left samples
         y1 == IF mb_x > 0 THEN RotateLeft(dec.yuv_b.y, 16) ELSE dec.yuv_b.y
         u1 == IF mb_x > 0 THEN RotateLeft(dec.yuv_b.u, 8) ELSE dec.yuv_b.u
         v1 == IF mb_x > 0 THEN RotateLeft(dec.yuv_b.v, 8) ELSE dec.yuv_b.v
         \* bring top samples into the cache
         y2 == IF mb_y > 0 THEN BringTop(y1, 16, top_yuv.y) ELSE y1
         u2 == IF mb_y > 0 THEN BringTop(u1, 8, top_yuv.u) ELSE u1
         v2 == IF mb_y > 0 THEN BringTop(v1, 8, top_yuv.v) ELSE v1
         y3 == IF block.is_i4x4
               THEN TopRight(y2, dec.yuv_t, mb_x, mb_y, dec.mb_w)
               ELSE y2
         \* predict and add residuals
         y4 == Predict(y3, 16, "y", mb_x, mb_y)
         u4 == Predict(u2, 8, "u", mb_x, mb_y)
         v4 == Predict(v2, 8, "v", mb_x, mb_y)
         stash == StashWanted(mb_y, dec.mb_h)
     IN  /\ dec' = [dec EXCEPT
                      !.yuv_b = [y |-> y4, u |-> u4, v |-> v4],
                      !.yuv_t[mb_x] = IF stash
                                      THEN [y |-> BottomRow(y4, 16),
                                            u |-> BottomRow(u4, 8),
                                            v |-> BottomRow(v4, 8)]
                                      ELSE @]
         /\ cache_y' = Transfer(cache_y, y4, 16, mb_x)
         /\ cache_uv' = [u |-> Transfer(cache_uv.u, u4, 8, mb_x),
                         v |-> Transfer(cache_uv.v, v4, 8, mb_x)]
         /\ hist' = [hist EXCEPT
                       !.preds = Append(@, [mb_x |-> mb_x, mb_y |-> mb_y,
                                            is_i4x4 |-> block.is_i4x4,
                                            band |-> top_yuv,
                                            y |-> Borders(y3, 16),
                                            u |-> Borders(u2, 8),
                                            v |-> Borders(v2, 8)]),
                       !.stashed = IF stash THEN Append(@, <<mb_x, mb_y>>) ELSE @]
         /\ pc' = IF mb_x + 1 < dec.mb_w THEN [at |-> "loop", mb_x |-> mb_x + 1]
                  ELSE [at |-> "return", mb_x |-> mb_x + 1]
  /\ UNCHANGED <<io, ctx, worker, mb_data_buf, f_info_buf, ret, env>>
  /\ UNCHANGED encvars

\* The row is done; the next one is parsed, or the frame ends.
ReconstructNextRow ==
  /\ pc.at = "return"
  /\ IF ctx.mb_y + 1 < dec.mb_h
     THEN /\ ctx' = [ctx EXCEPT !.mb_y = @ + 1]
          /\ mb_data_buf' = ParsedRow(env.i4x4, dec.mb_w, ctx.mb_y + 1)
          /\ pc' = [at |-> "row", mb_x |-> 0]
     ELSE /\ pc' = [at |-> "done", mb_x |-> 0]
          /\ UNCHANGED <<ctx, mb_data_buf>>
  /\ UNCHANGED <<dec, io, worker, cache_y, cache_uv, f_info_buf, ret, env, hist>>
  /\ UNCHANGED encvars

NextRecon ==
  \/ ReconstructRowBegin
  \/ ReconstructBlock
  \/ ReconstructNextRow

SpecRecon == InitRecon /\ [][NextRecon]_vars

RowStarted == pc.at = "loop" /\ pc.mb_x = 0

AllAre(f, v) == \A c \in DOMAIN f : f[c] = v

TopRowOf(plane, n) == [c \in 0..(n - 1) |-> plane[<<-1, c>>]]

LeftColumnOf(plane, n) == [r \in 0..(n - 1) |-> plane[<<r, -1>>]]

\* What ReconstructRow has prepared when the first block of a row is about
\* to be predicted, corner being the top-left sample on the first row, and
\* what every block below the first row found above it.
TopLeftPrepared(corner) ==
  /\ (RowStarted /\ ctx.mb_y = 0) =>
        /\ AllAre(TopRowOf(dec.yuv_b.y, 16), Sample(127))
        /\ AllAre(TopRowOf(dec.yuv_b.u, 8), Sample(127))
        /\ AllAre(TopRowOf(dec.yuv_b.v, 8), Sample(127))
        /\ dec.yuv_b.y[<<-1, -1>>] = Sample(corner)
        /\ dec.yuv_b.u[<<-1, -1>>] = Sample(corner)
        /\ dec.yuv_b.v[<<-1, -1>>] = Sample(corner)
  /\ RowStarted =>
        /\ AllAre(LeftColumnOf(dec.yuv_b.y, 16), Sample(129))
        /\ AllAre(LeftColumnOf(dec.yuv_b.u, 8), Sample(129))
        /\ AllAre(LeftColumnOf(dec.yuv_b.v, 8), Sample(129))
  /\ \A k \in DOMAIN hist.preds :
        LET p == hist.preds[k]
        IN  /\ p.mb_y > 0 =>
                  /\ p.y.top = p.band.y
                  /\ p.u.top = p.band.u
                  /\ p.v.top = p.band.v
            /\ p.mb_x = 0 =>
                  /\ AllAre(p.y.left, Sample(129))
                  /\ AllAre(p.u.left, Sample(129))
                  /\ AllAre(p.v.left, Sample(129))

\* C24, as stated: when row 0 starts, the top row of the luma, U and V areas
\* is 127 and the top-left sample of each is 129; below the first row the
\* top row of block mb_x is the saved band of column mb_x; the left column
\* of the first block of every row is 129.
TopLeftIs129OnFirstRow == TopLeftPrepared(129)

\* C24, amended: when row 0 starts, the top row of the luma, U and V areas
\* and the top-left sample of each are 127 (the top-left sample of the first
\* block is 129 on the rows below); below the first row the top row of
\* block mb_x is the saved band of column mb_x; the left column of the
\* first block of every row is 129.
TopLeftIs127OnFirstRow ==
  /\ TopLeftPrepared(127)
  /\ \A k \in DOMAIN hist.preds :
        LET p == hist.preds[k]
        IN  (p.mb_x = 0 /\ p.mb_y > 0) =>
              /\ p.y.top_left = Sample(129)
              /\ p.u.top_left = Sample(129)
              /\ p.v.top_left = Sample(129)

\* The first block of the frame and a first block of a later row were
\* predicted, one with a corner of 127 and one with a corner of 129 and the
\* band above it.
TopLeftIs127OnFirstRowWitness ==
  /\ Len(hist.preds) > 0
  /\ hist.preds[1].y.top_left = Sample(127)
  /\ AllAre(hist.preds[1].y.top, Sample(127))
  /\ \E k \in DOMAIN hist.preds :
        /\ hist.preds[k].mb_x = 0
        /\ hist.preds[k].mb_y > 0
        /\ hist.preds[k].y.top_left = Sample(129)
        /\ hist.preds[k].y.top = hist.preds[k].band.y
        /\ ~AllAre(hist.preds[k].y.top, Indeterminate)

\* The bottom row of a reconstructed macroblock.
BottomEdge(name, n, mb_x, mb_y) ==
  [c \in 0..(n - 1) |-> Pixel(name, mb_x, mb_y, c, n - 1)]

\* C25: below the first row, the samples above block (mb_x, mb_y) at its
\* prediction are the bottom row of block (mb_x, mb_y - 1); for an i4x4
\* block the four samples above and right are the first four bottom-row
\* luma samples of block (mb_x + 1, mb_y - 1), or the last sample of the
\* block's own band on the right border; no band is stashed on the last
\* macroblock row, and once a row is done every band holds the bottom edge
\* of the last row that stashed one.
TopBandFeedsRowBelow ==
  /\ \A k \in DOMAIN hist.preds :
        LET p == hist.preds[k]
        IN  p.mb_y >= 1 =>
              /\ p.y.top = BottomEdge("y", 16, p.mb_x, p.mb_y - 1)
              /\ p.u.top = BottomEdge("u", 8, p.mb_x, p.mb_y - 1)
              /\ p.v.top = BottomEdge("v", 8, p.mb_x, p.mb_y - 1)
              /\ p.is_i4x4 =>
                    \A c \in 16..19 :
                      p.y.top_right[c] =
                        IF p.mb_x = dec.mb_w - 1
                        THEN Pixel("y", p.mb_x, p.mb_y - 1, 15, 15)
                        ELSE Pixel("y", p.mb_x + 1, p.mb_y - 1, c - 16, 15)
  /\ \A k \in DOMAIN hist.stashed : hist.stashed[k][2] < dec.mb_h - 1
  /\ pc.at \in {"return", "done"} =>
        \A x \in 0..(dec.mb_w - 1) :
          LET last == IF ctx.mb_y < dec.mb_h - 1 THEN ctx.mb_y ELSE dec.mb_h - 2
          IN  IF last < 0
              THEN dec.yuv_t[x].y = [c \in 0..15 |-> Indeterminate]
              ELSE /\ dec.yuv_t[x].y = BottomEdge("y", 16, x, last)
                   /\ dec.yuv_t[x].u = BottomEdge("u", 8, x, last)
                   /\ dec.yuv_t[x].v = BottomEdge("v", 8, x, last)

\* A frame was reconstructed in which an i4x4 block below the first row and
\* left of the right border read the band of the next column, and another
\* on the right border read its own.
TopBandFeedsRowBelowWitness ==
  /\ pc.at = "done"
  /\ \E j, k \in DOMAIN hist.preds :
        /\ hist.preds[j].mb_y >= 1
        /\ hist.preds[j].is_i4x4
        /\ hist.preds[j].mb_x < dec.mb_w - 1
        /\ hist.preds[j].y.top_right[16] =
              Pixel("y", hist.preds[j].mb_x + 1, hist.preds[j].mb_y - 1, 0, 15)
        /\ hist.preds[k].mb_y >= 1
        /\ hist.preds[k].is_i4x4
        /\ hist.preds[k].mb_x = dec.mb_w - 1

\* ======================================================================
\* The lossless encoder's histogram clustering, src/enc/histogram_enc.c:
\* VP8LGetHistoImageSymbols and the passes it runs.
\*
\* A histogram counts the codes of the tokens of one tile in five classes:
\* literal (green, then the length prefixes), red, blue, alpha, distance.
\* The alphabets are small here, and costs are fixed-point numbers with
\* LOG_2_PRECISION_BITS fractional bits, held in 32-bit integers.
\* ======================================================================
NumLiteralCodes == 5     \* colour components are 0..NumLiteralCodes-1
NumLengthCodes == 1      \* length prefix codes
NumDistanceCodes == 5    \* distance prefix codes

LOG_2_PRECISION_BITS == 10
CODE_LENGTH_CODES == 19
VP8L_NON_TRIVIAL_SYM == -1       \* 0xffffffff, read as a 32-bit pattern
WEBP_INT64_MAX == 2147483647     \* the largest value of the cost integers
NUM_PARTITIONS == 4
BIN_SIZE == NUM_PARTITIONS * NUM_PARTITIONS * NUM_PARTITIONS
MAX_HISTO_GREEDY == 100

\* The last colour component value, what 0xff is to an 8-bit component.
LastComponent == NumLiteralCodes - 1

RECURSIVE SumTo(_, _)
\* f[0] + ... + f[n-1]
SumTo(f, n) == IF n = 0 THEN 0 ELSE f[n - 1] + SumTo(f, n - 1)

RECURSIVE Table(_, _)
\* The function f on 0..(n - 1), n > 0, value by value.
Table(f, n) ==
  IF n = 1 THEN 0 :> f[0] ELSE Table(f, n - 1) @@ ((n - 1) :> f[n - 1])

RECURSIVE FoldRange(_, _, _, _)
\* A loop "for (i = lo; i <= hi; ++i) acc = step(acc, i)": the first half
\* of the turns, then the second half, each half's result worked out before
\* the next half starts.
FoldRange(step(_, _), acc, lo, hi) ==
  IF lo > hi THEN acc
  ELSE IF lo = hi THEN step(acc, lo)
  ELSE LET mid == (lo + hi) \div 2
           left == FoldRange(step, acc, lo, mid)
       IN  IF left = left THEN FoldRange(step, left, mid + 1, hi) ELSE left

RECURSIVE Pow2(_)
Pow2(n) == IF n = 0 THEN 1 ELSE 2 * Pow2(n - 1)

\* A shift that does nothing.
ShlNone(a, n) == a

\* a << n
Shl(a, n) == a * Pow2(n)

\* C's integer division, which truncates toward zero.
CDiv(a, b) ==
  IF (a < 0) = (b < 0)
  THEN (IF a < 0 THEN 0 - a ELSE a) \div (IF b < 0 THEN 0 - b ELSE b)
  ELSE 0 - ((IF a < 0 THEN 0 - a ELSE a) \div (IF b < 0 THEN 0 - b ELSE b))

\* DivRound(a, b): a / b rounded to the nearest integer.
DivRound(a, b) ==
  IF (a < 0) = (b < 0) THEN CDiv(a + CDiv(b, 2), b) ELSE CDiv(a - CDiv(b, 2), b)

RECURSIVE FloorLog2(_)
FloorLog2(v) == IF v < 2 THEN 0 ELSE 1 + FloorLog2(v \div 2)

RECURSIVE FracLog2(_, _)
\* The first k fractional bits of log2(x / 2^14), for 2^14 <= x < 2^15.
FracLog2(x, k) ==
  IF k = 0 THEN 0
  ELSE LET y == (x * x) \div 16384
       IN  IF y >= 32768 THEN Pow2(k - 1) + FracLog2(y \div 2, k - 1)
           ELSE FracLog2(y, k - 1)

\* VP8LFastSLog2(v): v * log2(v) as a fixed-point number.
VP8LFastSLog2(v) ==
  IF v < 2 THEN 0
  ELSE LET n == FloorLog2(v)
           x == IF n <= 14 THEN v * Pow2(14 - n) ELSE v \div Pow2(n - 14)
       IN  v * (Shl(n, LOG_2_PRECISION_BITS) + FracLog2(x, LOG_2_PRECISION_BITS))

\* An addition that always saturates.
SaturateAddMax(a, b) == WEBP_INT64_MAX

\* Set a + b in b, saturating at WEBP_INT64_MAX.
SaturateAdd(a, b) ==
  IF b < 0 \/ a <= WEBP_INT64_MAX - b THEN b + a ELSE WEBP_INT64_MAX

\* -------------------------------------------------------------- histograms
VP8LHistogramNumCodes(palette_code_bits) ==
  NumLiteralCodes + NumLengthCodes
    + (IF palette_code_bits > 0 THEN Pow2(palette_code_bits) ELSE 0)

\* The length of the population of class index (0 literal, 1 red, 2 blue,
\* 3 alpha, 4 distance), as GetCombinedEntropy selects it.
ClassLength(index, palette_code_bits) ==
  CASE index = 0 -> VP8LHistogramNumCodes(palette_code_bits)
    [] index \in 1..3 -> NumLiteralCodes
    [] index = 4 -> NumDistanceCodes

\* The population of class index of histogram h.
Population(h, index) ==
  CASE index = 0 -> h.literal
    [] index = 1 -> h.red
    [] index = 2 -> h.blue
    [] index = 3 -> h.alpha
    [] index = 4 -> h.distance

Zeros(n) == Table([i \in 0..(n - 1) |-> 0], n)

\* A NULL entry of a histogram set.
NullHistogram == [null |-> TRUE]

IsNull(h) == h.null

\* HistogramClear: everything is zero but palette_code_bits.
HistogramClear(palette_code_bits) ==
  [null |-> FALSE,
   literal |-> Zeros(VP8LHistogramNumCodes(palette_code_bits)),
   red |-> Zeros(NumLiteralCodes), blue |-> Zeros(NumLiteralCodes),
   alpha |-> Zeros(NumLiteralCodes), distance |-> Zeros(NumDistanceCodes),
   palette_code_bits |-> palette_code_bits,
   trivial_symbol |-> 0, bit_cost |-> 0, literal_cost |-> 0, red_cost |-> 0,
   blue_cost |-> 0, bin_id |-> 0,
   is_used |-> [i \in 0..4 |-> FALSE]]

\* A token of the backward references: a literal pixel or a copy, with the
\* prefix codes VP8LPrefixEncodeBits gives its length and distance.
LiteralToken(a, r, g, b) ==
  [is_literal |-> TRUE, a |-> a, r |-> r, g |-> g, b |-> b, code |-> 0, dist |-> 0]

CopyToken(code, dist) ==
  [is_literal |-> FALSE, a |-> 0, r |-> 0, g |-> 0, b |-> 0, code |-> code, dist |-> dist]

\* n times the token t.
Repeat(t, n) == [k \in 1..n |-> t]

HistogramAddSinglePixOrCopy(histo, v) ==
  LET incr(f, i, n) == Table([f EXCEPT ![i] = @ + 1], n)
      literal_size == VP8LHistogramNumCodes(histo.palette_code_bits)
  IN  IF v.is_literal
      THEN [histo EXCEPT !.alpha = incr(@, v.a, NumLiteralCodes),
                         !.red = incr(@, v.r, NumLiteralCodes),
                         !.literal = incr(@, v.g, literal_size),
                         !.blue = incr(@, v.b, NumLiteralCodes)]
      ELSE [histo EXCEPT
              !.literal = incr(@, NumLiteralCodes + v.code, literal_size),
              !.distance = incr(@, v.dist, NumDistanceCodes)]

\* The tokens of one tile, added one by one as HistogramBuild does.
StoreTokens(histo, tokens) ==
  LET step(h, k) == HistogramAddSinglePixOrCopy(h, tokens[k])
  IN  FoldRange(step, histo, 1, Len(tokens))

\* VP8LHistogramAdd: out's counts become a + b, class by class.
VP8LHistogramAdd(a, b, out) ==
  LET sum(x, y, n) == Table([i \in 0..(n - 1) |-> x[i] + y[i]], n)
      literal_size == VP8LHistogramNumCodes(a.palette_code_bits)
  IN  [out EXCEPT
         !.literal = sum(a.literal, b.literal, literal_size),
         !.red = sum(a.red, b.red, NumLiteralCodes),
         !.blue = sum(a.blue, b.blue, NumLiteralCodes),
         !.alpha = sum(a.alpha, b.alpha, NumLiteralCodes),
         !.distance = sum(a.distance, b.distance, NumDistanceCodes),
         !.is_used = Table([i \in 0..4 |-> a.is_used[i] \/ b.is_used[i]], 5)]

\* out->trivial_symbol of a HistogramAdd that read a's as ta and b's as tb.
AddedTrivialSymbolOfA(ta, tb) == ta

AddedTrivialSymbol(ta, tb) == IF ta = tb THEN ta ELSE VP8L_NON_TRIVIAL_SYM

\* HistogramAdd(a, b, out): the new value of *out.  out may be the object a
\* or the object b (alias is "a", "b" or "none"): trivial_symbol is read
\* from a and b after VP8LHistogramAdd has written out.
HistogramAdd(a, b, out, alias) ==
  LET out1 == VP8LHistogramAdd(a, b, out)
      a1 == IF alias = "a" THEN out1 ELSE a
      b1 == IF alias = "b" THEN out1 ELSE b
  IN  [out1 EXCEPT !.trivial_symbol =
                      AddedTrivialSymbol(a1.trivial_symbol, b1.trivial_symbol)]

\* ------------------------------------------------------------ entropy, cost
\* VP8LGetEntropyUnrefined over a population X of the given length (for a
\* pair of histograms, VP8LGetCombinedEntropyUnrefined, X is the sum of the
\* two populations).  A streak is a maximal run of equal counts.
IsStreakStart(X, i) == i = 0 \/ X[i] # X[i - 1]

StreakLength(X, length, s) ==
  LET later == {t \in (s + 1)..(length - 1) : IsStreakStart(X, t)}
      stop == IF later = {} THEN length
              ELSE CHOOSE t \in later : \A u \in later : t <= u
  IN  stop - s

VP8LGetEntropyUnrefined(population, length) ==
  LET idx == 0..(length - 1)
      Stats(X, starts, streak_of) ==
        LET nz == {i \in idx : X[i] # 0}
            streak(k, long) ==
              SumTo([i \in idx |->
                       IF /\ i \in starts
                          /\ (X[i] # 0) = k
                          /\ (streak_of[i] > 3) = long
                       THEN streak_of[i] ELSE 0], length)
            count(k) ==
              Cardinality({s \in starts : /\ (X[s] # 0) = k
                                          /\ streak_of[s] > 3})
        IN  [entropy |-> VP8LFastSLog2(SumTo(X, length))
                           - SumTo([i \in idx |-> VP8LFastSLog2(X[i])], length),
             sum |-> SumTo(X, length),
             nonzeros |-> Cardinality(nz),
             max_val |-> IF nz = {} THEN 0
                         ELSE CHOOSE m \in {X[i] : i \in nz} :
                                \A i \in nz : X[i] <= m,
             nonzero_code |-> IF nz = {} THEN VP8L_NON_TRIVIAL_SYM
                              ELSE CHOOSE s \in starts \cap nz :
                                     \A t \in starts \cap nz : t <= s,
             counts |-> <<count(FALSE), count(TRUE)>>,
             streaks |-> << <<streak(FALSE, FALSE), streak(FALSE, TRUE)>>,
                            <<streak(TRUE, FALSE), streak(TRUE, TRUE)>> >>]
      Streaks(X, starts) ==
        Stats(X, starts,
              Table([s \in idx |->
                       IF s \in starts THEN StreakLength(X, length, s)
                       ELSE 0], length))
      Starts(X) == Streaks(X, {s \in idx : IsStreakStart(X, s)})
  IN  Starts(Table(population, length))

\* counts[k] and streaks[k][l] of the C arrays are counts[k + 1] and
\* streaks[k + 1][l + 1] of these tuples.
BitsEntropyRefine(entropy) ==
  IF entropy.nonzeros <= 1 THEN 0
  ELSE IF entropy.nonzeros = 2
  THEN DivRound(99 * Shl(entropy.sum, LOG_2_PRECISION_BITS) + entropy.entropy, 100)
  ELSE LET mix == IF entropy.nonzeros = 3 THEN 950
                  ELSE IF entropy.nonzeros = 4 THEN 700 ELSE 627
           min_limit0 == Shl(2 * entropy.sum - entropy.max_val, LOG_2_PRECISION_BITS)
           min_limit == DivRound(mix * min_limit0 + (1000 - mix) * entropy.entropy, 1000)
       IN  IF entropy.entropy < min_limit THEN min_limit ELSE entropy.entropy

InitialHuffmanCost ==
  Shl(CODE_LENGTH_CODES * 3, LOG_2_PRECISION_BITS)
    - DivRound(Shl(91, LOG_2_PRECISION_BITS), 10)

FinalHuffmanCost(stats) ==
  LET retval_extra == stats.counts[1] * 1600 + 240 * stats.streaks[1][2]
                        + stats.counts[2] * 2640 + 720 * stats.streaks[2][2]
                        + 1840 * stats.streaks[1][1]
                        + 3360 * stats.streaks[2][1]
  IN  InitialHuffmanCost + Shl(retval_extra, LOG_2_PRECISION_BITS - 10)

\* PopulationCost: the cost, *trivial_sym and *is_used.
PopulationCost(population, length) ==
  LET Of(e) ==
        [cost |-> BitsEntropyRefine(e) + FinalHuffmanCost(e),
         trivial_sym |-> IF e.nonzeros = 1 THEN e.nonzero_code
                         ELSE VP8L_NON_TRIVIAL_SYM,
         is_used |-> e.streaks[2][1] # 0 \/ e.streaks[2][2] # 0]
  IN  Of(VP8LGetEntropyUnrefined(population, length))

GetCombinedEntropy(histo_X, histo_Y, index, trivial_at_end) ==
  LET length == ClassLength(index, histo_X.palette_code_bits)
      X == Population(histo_X, index)
      Y == Population(histo_Y, index)
      is_X_used == histo_X.is_used[index]
      is_Y_used == histo_Y.is_used[index]
      Cost(e) == BitsEntropyRefine(e) + FinalHuffmanCost(e)
  IN  IF trivial_at_end \/ (~is_X_used /\ ~is_Y_used)
      THEN FinalHuffmanCost(
             IF trivial_at_end
             THEN [counts |-> <<1, 0>>,
                   streaks |-> << <<0, length - 1>>, <<1, 0>> >>]
             ELSE [counts |-> <<1, 0>>,
                   streaks |-> << IF length > 3 THEN <<0, length>>
                                  ELSE <<length, 0>>,
                                  <<0, 0>> >>])
      ELSE Cost(VP8LGetEntropyUnrefined(
                  IF is_X_used /\ is_Y_used
                  THEN [i \in 0..(length - 1) |-> X[i] + Y[i]]
                  ELSE IF is_X_used THEN X ELSE Y,
                  length))

\* (x >> shift) & 0xff
ByteOf(x, shift) == (x \div Pow2(shift)) % 256

\* Whether A, R and B of a trivial symbol are all 0 or the last value.
TrivialAtEnd(a, b) ==
  /\ a.trivial_symbol # VP8L_NON_TRIVIAL_SYM
  /\ a.trivial_symbol = b.trivial_symbol
  /\ \A shift \in {24, 16, 0} :
       ByteOf(a.trivial_symbol, shift) \in {0, LastComponent}

\* GetCombinedHistogramEntropy when no threshold stops it.
GetCombinedHistogramEntropyAlways(a, b, cost_threshold_in) ==
  [ok |-> TRUE,
   cost |-> SumTo(Table([k \in 0..4 |-> GetCombinedEntropy(a, b, k, FALSE)], 5), 5)]

\* GetCombinedHistogramEntropy: [ok, cost].  The cost is compared with the
\* threshold after the literals and after each further class; c[k] is the
\* combined entropy of class k.
GetCombinedHistogramEntropy(a, b, cost_threshold_in) ==
  LET Upto(c, k) == SumTo(c, k + 1)
      Of(c) ==
        [ok |-> /\ cost_threshold_in > 0
                /\ \A k \in 0..4 : Upto(c, k) < cost_threshold_in,
         cost |-> Upto(c, 4)]
      Classes(at_end) ==
        Of(Table([k \in 0..4 |->
                    GetCombinedEntropy(a, b, k, k \in 1..3 /\ at_end)], 5))
  IN  Classes(TrivialAtEnd(a, b))

\* HistogramAddEval: [ok, out], out = a + b with its cost when ok.
HistogramAddEval(a, b, out, cost_threshold) ==
  LET sum_cost == a.bit_cost + b.bit_cost
      Eval(r) ==
        [ok |-> r.ok,
         out |-> IF r.ok
                 THEN [HistogramAdd(a, b, out, "none") EXCEPT
                         !.bit_cost = r.cost,
                         !.palette_code_bits = a.palette_code_bits]
                 ELSE out]
  IN  Eval(GetCombinedHistogramEntropy(a, b, SaturateAdd(sum_cost, cost_threshold)))

\* HistogramAddThresh: [ok, cost_out], the cost C(a+b) - C(a) when ok.
HistogramAddThresh(a, b, cost_threshold) ==
  LET Thresh(r) == [ok |-> r.ok, cost_out |-> r.cost - a.bit_cost]
  IN  Thresh(GetCombinedHistogramEntropy(a, b, SaturateAdd(a.bit_cost, cost_threshold)))

\* UpdateHistogramCost: the costs, is_used and trivial_symbol of h.
UpdateHistogramCost(h) ==
  LET literal == 0
      red == 1
      blue == 2
      alpha == 3
      distance == 4
      With(c) ==
        [h EXCEPT
           !.is_used = Table([k \in 0..4 |-> c[k].is_used], 5),
           !.literal_cost = c[literal].cost,
           !.red_cost = c[red].cost,
           !.blue_cost = c[blue].cost,
           !.bit_cost = c[literal].cost + c[red].cost + c[blue].cost
                          + c[alpha].cost + c[distance].cost,
           !.trivial_symbol =
              \* the bitwise or of the three is 0xffffffff exactly when one is
              IF VP8L_NON_TRIVIAL_SYM \in {c[alpha].trivial_sym, c[red].trivial_sym,
                                           c[blue].trivial_sym}
              THEN VP8L_NON_TRIVIAL_SYM
              ELSE Shl(c[alpha].trivial_sym, 24) + Shl(c[red].trivial_sym, 16)
                     + c[blue].trivial_sym]
  IN  With(Table([k \in 0..4 |->
                    PopulationCost(Population(h, k),
                                   ClassLength(k, h.palette_code_bits))], 5))

\* ----------------------------------------------------------- histogram sets
\* A VP8LHistogramSet is [histograms, size, max_size]; histograms maps
\* 0..max_size-1 to a histogram or to NullHistogram.
RECURSIVE ShrunkSize(_, _)
\* while (size >= 1 && histograms[size - 1] == NULL) --size;
ShrunkSize(histograms, size) ==
  IF size >= 1 /\ IsNull(histograms[size - 1])
  THEN ShrunkSize(histograms, size - 1)
  ELSE size

SizeAfterRemoveNoShrink(histograms, size, i) == size

\* set->size after histograms[i] has been set to NULL
SizeAfterRemove(histograms, size, i) ==
  IF i = size - 1 THEN ShrunkSize(histograms, size) ELSE size

\* A removal that removes nothing.
HistogramSetRemoveNothing(set, i, used) == [set |-> set, num_used |-> used]

\* HistogramSetRemoveHistogram: [set, num_used].  The caller passes an i
\* with set->histograms[i] != NULL (the function asserts it).
HistogramSetRemoveHistogram(set, i, used) ==
  LET histograms == [set.histograms EXCEPT ![i] = NullHistogram]
  IN  [set |-> [set EXCEPT !.histograms = histograms,
                           !.size = SizeAfterRemove(histograms, set.size, i)],
       num_used |-> used - 1]

\* The indices of the histograms of a set that are not NULL.
Live(set) ==
  {i \in 0..(set.max_size - 1) : ~IsNull(set.histograms[i])}

\* The decoder's variables while the encoder is the program under study.
DecoderIdle ==
  /\ dec = <<>>
  /\ io = <<>>
  /\ ctx = <<>>
  /\ worker = <<>>
  /\ cache_y = <<>>
  /\ cache_uv = <<>>
  /\ mb_data_buf = <<>>
  /\ f_info_buf = <<>>
  /\ pc = "idle"
  /\ ret = -1
  /\ env = <<>>
  /\ hist = <<>>

\* ------------------------------------------ HistogramSetRemoveHistogram alone
MaxSetSize == 6      \* sets of 1..MaxSetSize histograms

\* A set of n histograms of which the first m are in use, as
\* VP8LAllocateHistogramSet and HistogramCopyAndAnalyze leave it; histogram
\* i counts i + 1 pixels, and the slots from m on hold histograms that were
\* allocated and never filled.
FullSet(n, m) ==
  [histograms |->
     [i \in 0..(n - 1) |->
        IF i < m
        THEN UpdateHistogramCost(
               StoreTokens(HistogramClear(0),
                           [k \in 1..(i + 1) |-> LiteralToken(0, 0, 0, 0)]))
        ELSE HistogramClear(0)],
   size |-> m, max_size |-> n]

InitRemove ==
  /\ DecoderIdle
  /\ \E n \in 1..MaxSetSize : \E m \in 1..n :
       /\ image_histo = FullSet(n, m)
       /\ num_used = m
       /\ henc = [pc |-> "remove", initial |-> FullSet(n, m)]
  /\ orig_histo = <<>>
  /\ histo_queue = <<>>
  /\ histogram_symbols = <<>>

\* One call, for a histogram of the set that is not NULL.
RemoveHistogram ==
  /\ henc.pc = "remove"
  /\ \E i \in Live(image_histo) :
       /\ i < image_histo.size
       /\ LET r == HistogramSetRemoveHistogram(image_histo, i, num_used)
          IN  /\ image_histo' = r.set
              /\ num_used' = r.num_used
  /\ UNCHANGED <<orig_histo, histo_queue, histogram_symbols, henc>>
  /\ UNCHANGED decvars

NextRemove == RemoveHistogram

SpecRemove == InitRemove /\ [][NextRemove]_vars

\* The slots of the set, as it was at first, whose histogram is still there.
StillUsed ==
  {i \in 0..(henc.initial.size - 1) : ~IsNull(image_histo.histograms[i])}

\* C17: after any sequence of HistogramSetRemoveHistogram calls, every
\* histogram that remains is in the slot it started in, num_used is the
\* number of non-NULL slots below size, and size is 0 when no slot of the
\* set is in use and otherwise one more than the index of the last non-NULL
\* slot of the set.
RemoveKeepsSetConsistent ==
  henc.pc = "remove" =>
    /\ \A i \in Live(image_histo) :
         image_histo.histograms[i] = henc.initial.histograms[i]
    /\ num_used = Cardinality({i \in Live(image_histo) : i < image_histo.size})
    /\ image_histo.size =
         (IF StillUsed = {} THEN 0
          ELSE 1 + CHOOSE i \in StillUsed : \A j \in StillUsed : j <= i)

\* The last slot was removed after the one below it: size fell by two.
RemoveKeepsSetConsistentWitness ==
  /\ henc.pc = "remove"
  /\ image_histo.max_size >= 4
  /\ image_histo.size = image_histo.max_size - 2
  /\ Live(image_histo) = 0..(image_histo.size - 1) \ {1}

\* ----------------------------------------------------- HistogramAdd alone
\* The trivial symbols a histogram may carry: three packed colours and
\* VP8L_NON_TRIVIAL_SYM.
TrivialSymbols ==
  {0, 1, Shl(LastComponent, 24) + Shl(1, 16), VP8L_NON_TRIVIAL_SYM}

\* Two populations to add.
AddOperands ==
  {UpdateHistogramCost(StoreTokens(HistogramClear(0), t)) :
     t \in {<<LiteralToken(0, 0, 0, 0)>>,
            <<LiteralToken(0, 1, 0, 0), CopyToken(0, 1)>>}}

InitAdd ==
  /\ DecoderIdle
  /\ \E a \in AddOperands, b \in AddOperands,
        ta \in TrivialSymbols, tb \in TrivialSymbols,
        alias \in {"none", "a", "b"} :
       henc = [pc |-> "add",
               a |-> [a EXCEPT !.trivial_symbol = ta],
               b |-> [b EXCEPT !.trivial_symbol = tb],
               out |-> HistogramClear(0),
               alias |-> alias]
  /\ orig_histo = <<>>
  /\ image_histo = <<>>
  /\ num_used = 0
  /\ histo_queue = <<>>
  /\ histogram_symbols = <<>>

\* One call HistogramAdd(a, b, out), out being a, b or a third histogram.
HistogramAddCall ==
  /\ henc.pc = "add"
  /\ henc' = [henc EXCEPT
                !.pc = "added",
                !.out = HistogramAdd(henc.a, henc.b,
                                     CASE henc.alias = "a" -> henc.a
                                       [] henc.alias = "b" -> henc.b
                                       [] OTHER -> henc.out,
                                     henc.alias)]
  /\ UNCHANGED <<orig_histo, image_histo, num_used, histo_queue, histogram_symbols>>
  /\ UNCHANGED decvars

NextAdd == HistogramAddCall

SpecAdd == InitAdd /\ [][NextAdd]_vars

\* C14: HistogramAdd(a, b, out) leaves in out->trivial_symbol the common
\* value of a's and b's when they are equal and not VP8L_NON_TRIVIAL_SYM,
\* and VP8L_NON_TRIVIAL_SYM otherwise, also when out is a or b; the counts
\* of out are the sums.
HistogramAddTrivialSymbol ==
  henc.pc = "added" =>
    /\ henc.out.trivial_symbol =
         (IF /\ henc.a.trivial_symbol = henc.b.trivial_symbol
             /\ henc.a.trivial_symbol # VP8L_NON_TRIVIAL_SYM
          THEN henc.a.trivial_symbol
          ELSE VP8L_NON_TRIVIAL_SYM)
    /\ \A i \in 0..4 : \A c \in DOMAIN Population(henc.out, i) :
         Population(henc.out, i)[c]
           = Population(henc.a, i)[c] + Population(henc.b, i)[c]

\* Two different trivial symbols were added into a.
HistogramAddTrivialSymbolWitness ==
  /\ henc.pc = "added"
  /\ henc.alias = "a"
  /\ henc.a.trivial_symbol # henc.b.trivial_symbol
  /\ henc.a.trivial_symbol # VP8L_NON_TRIVIAL_SYM
  /\ henc.b.trivial_symbol # VP8L_NON_TRIVIAL_SYM
  /\ henc.out.trivial_symbol = VP8L_NON_TRIVIAL_SYM


\* ------------------------------------------------ UpdateHistogramCost alone
\* The tokens of the tiles to cost: pixels whose components are 0 or the last
\* value, and copies.
CostTokens ==
  {LiteralToken(a, r, g, b) : a \in {0, LastComponent}, r \in {0, LastComponent},
                              g \in {0, LastComponent}, b \in {0, LastComponent}}
  \cup {CopyToken(0, d) : d \in {0, NumDistanceCodes - 1}}

\* Tiles of one or two tokens.
CostTiles ==
  {<<t>> : t \in CostTokens} \cup {<<t, u>> : t \in CostTokens, u \in CostTokens}

InitCost ==
  /\ DecoderIdle
  /\ \E t \in CostTiles :
       henc = [pc |-> "cost", h |-> StoreTokens(HistogramClear(0), t)]
  /\ orig_histo = <<>>
  /\ image_histo = <<>>
  /\ num_used = 0
  /\ histo_queue = <<>>
  /\ histogram_symbols = <<>>

\* One call UpdateHistogramCost(h).
UpdateHistogramCostCall ==
  /\ henc.pc = "cost"
  /\ henc' = [henc EXCEPT !.pc = "costed", !.h = UpdateHistogramCost(henc.h)]
  /\ UNCHANGED <<orig_histo, image_histo, num_used, histo_queue, histogram_symbols>>
  /\ UNCHANGED decvars

NextCost == UpdateHistogramCostCall

SpecCost == InitCost /\ [][NextCost]_vars

\* The symbols of population X with a non-zero count.
NonZeros(X) == {i \in DOMAIN X : X[i] # 0}

Single(X) == Cardinality(NonZeros(X)) = 1

TheOne(X) == CHOOSE i \in NonZeros(X) : TRUE

\* C28 as stated: UpdateHistogramCost leaves a trivial_symbol other than
\* VP8L_NON_TRIVIAL_SYM exactly when each of literal, red, blue and alpha has
\* exactly one symbol with a non-zero count and distance is unused, and then
\* trivial_symbol = (A << 24) | (R << 16) | (G << 8) | B from those symbols.
TrivialSymbolIsARGB ==
  henc.pc = "costed" =>
    LET h == henc.h
        trivial == /\ Single(h.literal) /\ Single(h.red)
                   /\ Single(h.blue) /\ Single(h.alpha)
                   /\ NonZeros(h.distance) = {}
    IN  /\ (h.trivial_symbol # VP8L_NON_TRIVIAL_SYM) <=> trivial
        /\ trivial =>
             h.trivial_symbol = TheOne(h.alpha) * 16777216 + TheOne(h.red) * 65536
                                  + TheOne(h.literal) * 256 + TheOne(h.blue)

\* C28, amended: UpdateHistogramCost leaves a trivial_symbol other than
\* VP8L_NON_TRIVIAL_SYM exactly when each of red, blue and alpha has exactly
\* one symbol with a non-zero count, whatever literal and distance hold, and
\* then trivial_symbol = (A << 24) | (R << 16) | B: green has no part in it.
TrivialSymbolIsARB ==
  henc.pc = "costed" =>
    LET h == henc.h
        trivial == Single(h.red) /\ Single(h.blue) /\ Single(h.alpha)
    IN  /\ (h.trivial_symbol # VP8L_NON_TRIVIAL_SYM) <=> trivial
        /\ trivial =>
             h.trivial_symbol = TheOne(h.alpha) * 16777216 + TheOne(h.red) * 65536
                                  + TheOne(h.blue)

\* A tile of a pixel and a copy, the pixel's green not 0: two literal codes
\* and a distance in use, and yet a trivial symbol, without the green.
TrivialSymbolIsARBWitness ==
  /\ henc.pc = "costed"
  /\ Cardinality(NonZeros(henc.h.literal)) = 2
  /\ henc.h.literal[LastComponent] = 1
  /\ NonZeros(henc.h.distance) # {}
  /\ henc.h.is_used[4]
  /\ henc.h.trivial_symbol
       = LastComponent * 16777216 + LastComponent * 65536 + LastComponent

\* ------------------------------------------------------ the building passes
\* VP8LAllocateHistogramSet: size histograms, none NULL, nothing counted.
VP8LAllocateHistogramSet(size, cache_bits) ==
  [histograms |-> [i \in 0..(size - 1) |-> HistogramClear(cache_bits)],
   size |-> size, max_size |-> size]

\* HistogramBuild: the histogram of each tile from the tokens that fall in it.
HistogramBuild(tiles, cache_bits) ==
  [histograms |-> [i \in 0..(Len(tiles) - 1) |->
                     StoreTokens(HistogramClear(cache_bits), tiles[i + 1])],
   size |-> Len(tiles), max_size |-> Len(tiles)]

\* A histogram with no class in use.
IsUnused(h) == \A k \in 0..4 : ~h.is_used[k]

\* HistogramCopyAndAnalyze: [orig, image, num_used].
HistogramCopyAndAnalyze(orig_set, image_set, used) ==
  LET Analyzed(acc, i, histo) ==
        IF IsUnused(histo)
        THEN [acc EXCEPT !.orig.histograms[i] = NullHistogram,
                         !.num_used = @ - 1]
        ELSE [acc EXCEPT !.orig.histograms[i] = histo,
                         !.image.histograms[acc.image.size] = histo,
                         !.image.size = @ + 1]
      step(acc, i) ==
        Analyzed(acc, i, UpdateHistogramCost(acc.orig.histograms[i]))
  IN  FoldRange(step,
                [orig |-> orig_set, image |-> [image_set EXCEPT !.size = 0],
                 num_used |-> used],
                0, orig_set.max_size - 1)

\* The indices below n of the histograms that are not NULL, in order.
LiveBelow(set, n) ==
  LET step(live, i) ==
        IF IsNull(set.histograms[i]) THEN live ELSE Append(live, i)
  IN  FoldRange(step, <<>>, 0, n - 1)

\* RemoveEmptyHistograms: the histograms in use move to the front, in order.
RemoveEmptyHistograms(set) ==
  LET live == LiveBelow(set, set.size)
  IN  [set EXCEPT
         !.histograms = [i \in 0..(set.max_size - 1) |->
                           IF i < Len(live) THEN set.histograms[live[i + 1]]
                           ELSE set.histograms[i]],
         !.size = Len(live)]

\* ------------------------------------------------------ the entropy pre-pass
\* (int)((NUM_PARTITIONS - 1e-6) * delta / range): the bin of val in
\* [min, max]; a quotient that is an exact positive integer falls in the bin
\* below.
GetBinIdForEntropy(min, max, val) ==
  LET range == max - min
      delta == val - min
  IN  IF range > 0
      THEN IF delta > 0 /\ (NUM_PARTITIONS * delta) % range = 0
           THEN (NUM_PARTITIONS * delta) \div range - 1
           ELSE (NUM_PARTITIONS * delta) \div range
      ELSE 0

\* DominantCostRangeInit, then UpdateDominantCostRange with every histogram
\* of the set: the least and the greatest of the three dominant costs.
DominantCostRange(set) ==
  LET idxs == 0..(set.size - 1)
      lit == {set.histograms[i].literal_cost : i \in idxs}
      red == {set.histograms[i].red_cost : i \in idxs}
      blue == {set.histograms[i].blue_cost : i \in idxs}
  IN  [literal_max |-> CHOOSE m \in lit : \A x \in lit : m >= x,
       literal_min |-> CHOOSE m \in lit : \A x \in lit : m <= x,
       red_max |-> CHOOSE m \in red : \A x \in red : m >= x,
       red_min |-> CHOOSE m \in red : \A x \in red : m <= x,
       blue_max |-> CHOOSE m \in blue : \A x \in blue : m >= x,
       blue_min |-> CHOOSE m \in blue : \A x \in blue : m <= x]

GetHistoBinIndex(h, c, low_effort) ==
  LET lit == GetBinIdForEntropy(c.literal_min, c.literal_max, h.literal_cost)
      red == GetBinIdForEntropy(c.red_min, c.red_max, h.red_cost)
      blue == GetBinIdForEntropy(c.blue_min, c.blue_max, h.blue_cost)
  IN  IF low_effort THEN lit
      ELSE (lit * NUM_PARTITIONS + red) * NUM_PARTITIONS + blue

\* HistogramAnalyzeEntropyBin: every histogram of the set gets its bin_id.
HistogramAnalyzeEntropyBin(set, low_effort) ==
  LET range == DominantCostRange(set)
      cost_range == IF range = range THEN range ELSE range
  IN  [set EXCEPT !.histograms =
         [i \in 0..(set.max_size - 1) |->
            IF i < set.size
            THEN [set.histograms[i] EXCEPT !.bin_id =
                    GetHistoBinIndex(set.histograms[i], cost_range, low_effort)]
            ELSE set.histograms[i]]]

GetCombineCostFactor(histo_size, quality) ==
  LET f0 == 16
      f1 == IF histo_size > 256 THEN f0 \div 2 ELSE f0
      f2 == IF histo_size > 512 THEN f1 \div 2 ELSE f1
      f3 == IF histo_size > 1024 THEN f2 \div 2 ELSE f2
      f4 == IF quality <= 50 THEN f3 \div 2 ELSE f3
  IN  IF quality < 90 THEN f4 ELSE f0

\* try_combine: the sum has a trivial symbol, or neither operand has.
TryCombine(combo, histo, first) ==
  \/ combo.trivial_symbol # VP8L_NON_TRIVIAL_SYM
  \/ /\ histo.trivial_symbol = VP8L_NON_TRIVIAL_SYM
     /\ first.trivial_symbol = VP8L_NON_TRIVIAL_SYM

\* What the two tests of the pre-pass without low_effort say of the
\* candidate idx of a bin, and whether the step r merged it.
BinOutcome(set, cur_combo, bin_info, idx, combine_cost_factor, r) ==
  LET histo == set.histograms[idx]
      first == set.histograms[bin_info[histo.bin_id].first]
      Tested(e) ==
        [bin |-> histo.bin_id, idx |-> idx, cost_ok |-> e.ok,
         try_combine |-> e.ok /\ TryCombine(e.out, histo, first),
         merged |-> r.merged]
  IN  Tested(HistogramAddEval(
               first, histo, cur_combo,
               0 - DivRound(histo.bit_cost * combine_cost_factor, 100)))

\* An iteration that gives up the trivial-symbol test at once.
CombineEntropyBinStepNoTest(set, used, cur_combo, bin_info, idx, combine_cost_factor, low_effort) ==
  LET histograms == set.histograms
      bin_id == histograms[idx].bin_id
      first == bin_info[bin_id].first
      same == [set |-> set, num_used |-> used, cur_combo |-> cur_combo,
               bin_info |-> bin_info, merged |-> FALSE]
      Removed(r, combo) ==
        [same EXCEPT !.set = r.set, !.num_used = r.num_used,
                     !.cur_combo = combo, !.merged = TRUE]
      Evaluated(e) ==
        IF ~e.ok THEN same
        ELSE Removed(HistogramSetRemoveHistogram(
                       [set EXCEPT !.histograms[first] = e.out], idx, used),
                     histograms[first])
  IN  IF first = -1
      THEN [same EXCEPT !.bin_info[bin_id].first = idx]
      ELSE IF low_effort
      THEN Removed(HistogramSetRemoveHistogram(
                     [set EXCEPT !.histograms[first] =
                        HistogramAdd(histograms[idx], histograms[first],
                                     histograms[first], "b")],
                     idx, used),
                   cur_combo)
      ELSE Evaluated(HistogramAddEval(
                       histograms[first], histograms[idx], cur_combo,
                       0 - DivRound(histograms[idx].bit_cost * combine_cost_factor,
                                    100)))

\* One iteration, for histogram idx, of the loop of
\* HistogramCombineEntropyBin:
\* [set, num_used, cur_combo, bin_info, merged].
CombineEntropyBinStep(set, used, cur_combo, bin_info, idx, combine_cost_factor, low_effort) ==
  LET histograms == set.histograms
      bin_id == histograms[idx].bin_id
      first == bin_info[bin_id].first
      same == [set |-> set, num_used |-> used, cur_combo |-> cur_combo,
               bin_info |-> bin_info, merged |-> FALSE]
      \* HistogramSetRemoveHistogram has removed idx; first holds the sum.
      Removed(r, combo) ==
        [same EXCEPT !.set = r.set, !.num_used = r.num_used,
                     !.cur_combo = combo, !.merged = TRUE]
      max_combine_failures == 32
      \* e is what HistogramAddEval answered.
      Evaluated(e) ==
        IF ~e.ok THEN same
        ELSE IF \/ e.out.trivial_symbol # VP8L_NON_TRIVIAL_SYM
                \/ /\ histograms[idx].trivial_symbol = VP8L_NON_TRIVIAL_SYM
                   /\ histograms[first].trivial_symbol = VP8L_NON_TRIVIAL_SYM
                \/ bin_info[bin_id].num_combine_failures >= max_combine_failures
        THEN Removed(HistogramSetRemoveHistogram(
                       [set EXCEPT !.histograms[first] = e.out], idx, used),
                     histograms[first])
        ELSE [same EXCEPT
                !.cur_combo = e.out,
                !.bin_info[bin_id].num_combine_failures = @ + 1]
  IN  IF first = -1
      THEN [same EXCEPT !.bin_info[bin_id].first = idx]
      ELSE IF low_effort
      THEN Removed(HistogramSetRemoveHistogram(
                     [set EXCEPT !.histograms[first] =
                        HistogramAdd(histograms[idx], histograms[first],
                                     histograms[first], "b")],
                     idx, used),
                   cur_combo)
      ELSE Evaluated(HistogramAddEval(
                       histograms[first], histograms[idx], cur_combo,
                       0 - DivRound(histograms[idx].bit_cost * combine_cost_factor,
                                    100)))

\* The end of the low-effort pre-pass: the costs of what is left are updated.
UpdateCostsOfSet(set) ==
  [set EXCEPT !.histograms =
     [i \in 0..(set.max_size - 1) |->
        IF i < set.size /\ ~IsNull(set.histograms[i])
        THEN UpdateHistogramCost(set.histograms[i])
        ELSE set.histograms[i]]]

\* ------------------------------------- the cost tests, one call at a time
\* The tiles whose histograms are evaluated: one colour at either end of the
\* range, few or many times, and mixes.
EvalTiles ==
  {Repeat(LiteralToken(LastComponent, LastComponent, LastComponent,
                       LastComponent), 15),
   Repeat(LiteralToken(0, 0, 0, 0), 40),
   Repeat(LiteralToken(0, 0, 0, 0), 2),
   <<LiteralToken(0, 1, 2, 3), LiteralToken(0, 2, 3, 4), CopyToken(0, 1)>>,
   Repeat(LiteralToken(1, 1, 0, 1), 64)}

\* The histogram of a tile as HistogramCopyAndAnalyze leaves it.
AnalyzedTile(tokens) ==
  UpdateHistogramCost(StoreTokens(HistogramClear(0), tokens))

\* Two histograms of image_histo, and the factor of an image of histo_size
\* tiles at some quality.
InitEval ==
  /\ DecoderIdle
  /\ \E t1 \in EvalTiles, t2 \in EvalTiles,
        histo_size \in {1, 257, 513, 1025}, quality \in {50, 75, 90} :
       henc = [pc |-> "eval", first |-> AnalyzedTile(t1),
               tile |-> AnalyzedTile(t2),
               combine_cost_factor |-> GetCombineCostFactor(histo_size, quality),
               cur_combo |-> HistogramClear(0), threshold |-> 0,
               ok |-> FALSE, cost |-> 0]
  /\ orig_histo = <<>>
  /\ image_histo = <<>>
  /\ num_used = 0
  /\ histo_queue = <<>>
  /\ histogram_symbols = <<>>

\* The test of HistogramCombineEntropyBin for folding tile into first.
BinCostTest ==
  /\ henc.pc = "eval"
  /\ LET bit_cost == henc.tile.bit_cost
         bit_cost_thresh ==
           0 - DivRound(bit_cost * henc.combine_cost_factor, 100)
         Tested(r) ==
           [henc EXCEPT !.pc = "tested", !.ok = r.ok, !.cur_combo = r.out,
                        !.threshold = bit_cost_thresh]
     IN  henc' = Tested(HistogramAddEval(henc.first, henc.tile, henc.cur_combo,
                                         bit_cost_thresh))
  /\ UNCHANGED <<orig_histo, image_histo, num_used, histo_queue, histogram_symbols>>
  /\ UNCHANGED decvars

\* The combined costs of the five classes of a and b, as
\* GetCombinedHistogramEntropy adds them up.
ClassCosts(a, b) ==
  Table([k \in 0..4 |->
           GetCombinedEntropy(a, b, k, k \in 1..3 /\ TrivialAtEnd(a, b))], 5)

\* The thresholds tried: none, just not any, all there is, and one below,
\* at and one above each of the sums that the function compares.
Thresholds(c) ==
  {-1, 0, 1, WEBP_INT64_MAX}
    \cup {SumTo(c, k) + d : k \in 1..5, d \in {-1, 0, 1}}

\* One call GetCombinedHistogramEntropy(first, tile, threshold, &cost).
CombinedEntropyCall ==
  /\ henc.pc = "eval"
  /\ \E threshold \in Thresholds(ClassCosts(henc.first, henc.tile)) :
       LET Called(r) ==
             [henc EXCEPT !.pc = "called", !.ok = r.ok, !.cost = r.cost,
                          !.threshold = threshold]
       IN  henc' = Called(GetCombinedHistogramEntropy(henc.first, henc.tile,
                                                      threshold))
  /\ UNCHANGED <<orig_histo, image_histo, num_used, histo_queue, histogram_symbols>>
  /\ UNCHANGED decvars

NextEval ==
  \/ BinCostTest
  \/ CombinedEntropyCall

SpecEval == InitEval /\ [][NextEval]_vars

\* The cost of the two histograms of the call taken together, every class
\* counted.
FullCost == SumTo(ClassCosts(henc.first, henc.tile), 5)

\* What the test of the pre-pass compares the combined cost with:
\* first.bit_cost + tile.bit_cost - tile.bit_cost * factor / 100, the
\* quotient rounded to the nearest integer.
FoldLimit ==
  henc.first.bit_cost + henc.tile.bit_cost
    - (henc.tile.bit_cost * henc.combine_cost_factor + 50) \div 100

\* C34, as stated: the cost test of the pre-pass passes exactly when the
\* combined cost is at most first.bit_cost + tile.bit_cost
\* - (tile.bit_cost * combine_cost_factor / 100), equality included, with
\* combine_cost_factor one of 16, 8, 4, 2, 1.
FoldTestAdmitsEquality ==
  henc.pc = "tested" =>
    /\ henc.combine_cost_factor \in {16, 8, 4, 2, 1}
    /\ henc.ok <=> FullCost <= FoldLimit

\* C34, amended: the cost test of the pre-pass passes exactly when the
\* combined cost is strictly below first.bit_cost + tile.bit_cost
\* - DivRound(tile.bit_cost * combine_cost_factor, 100), with
\* combine_cost_factor one of 16, 8, 4, 2, 1; it fails in the case of
\* equality.
FoldTestIsStrict ==
  henc.pc = "tested" =>
    /\ henc.combine_cost_factor \in {16, 8, 4, 2, 1}
    /\ henc.ok <=> FullCost < FoldLimit

\* The test failed on a combined cost equal to the limit.
FoldTestIsStrictWitness ==
  /\ henc.pc = "tested"
  /\ ~henc.ok
  /\ FullCost = FoldLimit
  /\ henc.combine_cost_factor = 8

\* C37: GetCombinedHistogramEntropy(a, b, threshold, &cost) returns 1
\* exactly when threshold > 0 and the sum of the combined costs of the five
\* classes is strictly below threshold, and cost is then that sum: stopping
\* at a partial sum never changes the answer.
BailOutIsExact ==
  henc.pc = "called" =>
    /\ henc.ok <=> (henc.threshold > 0 /\ FullCost < henc.threshold)
    /\ henc.ok => henc.cost = FullCost

\* A call stopped after the literals, on a threshold above zero that the
\* sum of all classes exceeds too.
BailOutIsExactWitness ==
  /\ henc.pc = "called"
  /\ ~henc.ok
  /\ henc.threshold > 0
  /\ ClassCosts(henc.first, henc.tile)[0] >= henc.threshold
  /\ FullCost > henc.threshold

\* ------------------------------------------------------------ the pair queue
\* MyRand: seed * 48271 mod 2147483647, the product kept below 2^31 by
\* Schrage's decomposition (2147483647 = 48271 * 44488 + 3399).
MyRand(seed) ==
  LET t == 48271 * (seed % 44488) - 3399 * (seed \div 44488)
  IN  IF t < 0 THEN t + 2147483647 ELSE t

\* A queue that holds one pair at most.
HistoQueueInitOne(max_size) == [queue |-> <<>>, max_size |-> 1]

\* HistoQueueInit: an empty queue of at most max_size pairs; pair k of the C
\* array is element k + 1 of queue.
HistoQueueInit(max_size) == [queue |-> <<>>, max_size |-> max_size]

\* HistoQueuePopPair: the pair at position j is overwritten by the last one.
HistoQueuePopPair(hq, j) ==
  LET n == Len(hq.queue)
  IN  [hq EXCEPT !.queue =
         [k \in 1..(n - 1) |-> IF k = j THEN hq.queue[n] ELSE hq.queue[k]]]

\* HistoQueueUpdateHead when the head is never exchanged.
HistoQueueUpdateHeadNever(hq, j) == hq

\* HistoQueueUpdateHead: the pair at position j becomes the head if it is
\* better than the head.
HistoQueueUpdateHead(hq, j) ==
  IF hq.queue[j].cost_diff < hq.queue[1].cost_diff
  THEN [hq EXCEPT !.queue[1] = hq.queue[j], !.queue[j] = hq.queue[1]]
  ELSE hq

\* HistoQueueUpdatePair that accepts the pair with the costs it has.
HistoQueueUpdatePairAsIs(h1, h2, cost_threshold, pair) ==
  [ok |-> TRUE, pair |-> pair]

\* HistoQueueUpdatePair: [ok, pair].
HistoQueueUpdatePair(h1, h2, cost_threshold, pair) ==
  LET sum_cost == h1.bit_cost + h2.bit_cost
      Updated(r) ==
        [ok |-> r.ok,
         pair |-> [pair EXCEPT !.cost_combo = r.cost,
                               !.cost_diff = IF r.ok THEN r.cost - sum_cost
                                             ELSE @]]
  IN  Updated(GetCombinedHistogramEntropy(
                h1, h2, SaturateAdd(sum_cost, cost_threshold)))

\* HistoQueuePush: [hq, cost_diff], cost_diff 0 when nothing was pushed.
HistoQueuePush(hq, histograms, idx1, idx2, threshold) ==
  IF Len(hq.queue) = hq.max_size THEN [hq |-> hq, cost_diff |-> 0]
  ELSE LET lo == IF idx1 > idx2 THEN idx2 ELSE idx1
           hi == IF idx1 > idx2 THEN idx1 ELSE idx2
           Pushed(u) ==
             IF ~u.ok THEN [hq |-> hq, cost_diff |-> 0]
             ELSE [hq |-> HistoQueueUpdateHead(
                            [hq EXCEPT !.queue = Append(hq.queue, u.pair)],
                            Len(hq.queue) + 1),
                   cost_diff |-> u.pair.cost_diff]
       IN  Pushed(HistoQueueUpdatePair(
                    histograms[lo], histograms[hi], threshold,
                    [idx1 |-> lo, idx2 |-> hi, cost_diff |-> 0,
                     cost_combo |-> 0]))

\* ------------------------------------------------------------ the greedy pass
\* The opening of HistogramCombineGreedy when it pushes no pair.
GreedyNoPairs(hq, set) == hq

\* The pushes that open HistogramCombineGreedy: every pair of histograms
\* in use.
GreedyFirstPairs(hq, set) ==
  LET row(hq1, i) ==
        LET one(hq2, j) ==
              IF IsNull(set.histograms[j]) THEN hq2
              ELSE HistoQueuePush(hq2, set.histograms, i, j, 0).hq
        IN  IF IsNull(set.histograms[i]) THEN hq1
            ELSE FoldRange(one, hq1, i + 1, set.size - 1)
  IN  FoldRange(row, hq, 0, set.size - 1)

\* The pairs that touch idx1 or idx2 leave the queue; every turn of the
\* loop either pops a pair or moves on to the next.
GreedyDropPairs(hq, idx1, idx2) ==
  LET step(acc, t) ==
        LET p == acc.hq.queue[acc.i]
        IN  IF p.idx1 = idx1 \/ p.idx2 = idx1 \/ p.idx1 = idx2 \/ p.idx2 = idx2
            THEN [acc EXCEPT !.hq = HistoQueuePopPair(acc.hq, acc.i)]
            ELSE [hq |-> HistoQueueUpdateHead(acc.hq, acc.i), i |-> acc.i + 1]
  IN  FoldRange(step, [hq |-> hq, i |-> 1], 1, Len(hq.queue)).hq

\* A merge after which no pair is pushed.
GreedyNoNewPairs(hq, set, idx1) == hq

\* The merged histogram idx1 is paired again with every other one.
GreedyNewPairs(hq, set, idx1) ==
  LET step(hq1, i) ==
        IF i = idx1 \/ IsNull(set.histograms[i]) THEN hq1
        ELSE HistoQueuePush(hq1, set.histograms, idx1, i, 0).hq
  IN  FoldRange(step, hq, 0, set.size - 1)

\* One turn of the while loop of HistogramCombineGreedy:
\* [set, num_used, hq].
CombineGreedyStep(set, used, hq) ==
  LET idx1 == hq.queue[1].idx1
      idx2 == hq.queue[1].idx2
      sum == [HistogramAdd(set.histograms[idx2], set.histograms[idx1],
                           set.histograms[idx1], "b")
                EXCEPT !.bit_cost = hq.queue[1].cost_combo]
      Removed(r) ==
        [set |-> r.set, num_used |-> r.num_used,
         hq |-> GreedyNewPairs(GreedyDropPairs(hq, idx1, idx2), r.set, idx1)]
  IN  Removed(HistogramSetRemoveHistogram(
                [set EXCEPT !.histograms[idx1] = sum], idx2, used))

\* -------------------------------------------------------- the stochastic pass
\* The size of the queue of HistogramCombineStochastic.
kHistoQueueSize == 9

\* The random pairs tried in one iteration: [hq, seed, best_cost, full],
\* full once a push has filled the queue and the tries have stopped.
StochasticTries(hq, seed, best_cost, set, used, mappings) ==
  LET num_tries == used \div 2
      rand_range == (used - 1) * used
      Tried(acc, rnd, p) ==
        IF p.cost_diff < 0
        THEN [hq |-> p.hq, seed |-> rnd, best_cost |-> p.cost_diff,
              full |-> Len(p.hq.queue) = p.hq.max_size]
        ELSE [acc EXCEPT !.hq = p.hq, !.seed = rnd]
      step(acc, j) ==
        IF acc.full THEN acc
        ELSE LET rnd == MyRand(acc.seed)
                 tmp == rnd % rand_range
                 i1 == tmp \div (used - 1)
                 i2r == tmp % (used - 1)
                 i2 == IF i2r >= i1 THEN i2r + 1 ELSE i2r
             IN  Tried(acc, rnd,
                       HistoQueuePush(acc.hq, set.histograms, mappings[i1 + 1],
                                      mappings[i2 + 1], acc.best_cost))
  IN  FoldRange(step,
                [hq |-> hq, seed |-> seed, best_cost |-> best_cost,
                 full |-> FALSE],
                0, IF used >= 2 THEN num_tries - 1 ELSE -1)

\* A merge that leaves the queue as it is.
StochasticUpdatePairsKept(hq, set, best_idx1, best_idx2) == hq

\* The queue after histogram best_idx2 was merged into best_idx1; every
\* turn of the loop either pops a pair or moves on to the next.
StochasticUpdatePairs(hq, set, best_idx1, best_idx2) ==
  LET Evaluated(acc, j, u) ==
        IF ~u.ok
        THEN [acc EXCEPT !.hq = HistoQueuePopPair(
                                  [acc.hq EXCEPT !.queue[j] = u.pair], j)]
        ELSE [hq |-> HistoQueueUpdateHead(
                       [acc.hq EXCEPT !.queue[j] = u.pair], j),
              j |-> j + 1]
      step(acc, t) ==
        LET j == acc.j
            p == acc.hq.queue[j]
            is_idx1_best == p.idx1 = best_idx1 \/ p.idx1 = best_idx2
            is_idx2_best == p.idx2 = best_idx1 \/ p.idx2 = best_idx2
            n1 == IF is_idx1_best THEN best_idx1 ELSE p.idx1
            n2 == IF ~is_idx1_best /\ is_idx2_best THEN best_idx1 ELSE p.idx2
            do_eval == is_idx1_best \/ is_idx2_best
            q == [p EXCEPT !.idx1 = IF n1 > n2 THEN n2 ELSE n1,
                           !.idx2 = IF n1 > n2 THEN n1 ELSE n2]
        IN  IF is_idx1_best /\ is_idx2_best
            THEN [acc EXCEPT !.hq = HistoQueuePopPair(acc.hq, j)]
            ELSE Evaluated(acc, j,
                           IF do_eval
                           THEN HistoQueueUpdatePair(set.histograms[q.idx1],
                                                     set.histograms[q.idx2],
                                                     0, q)
                           ELSE [ok |-> TRUE, pair |-> q])
  IN  FoldRange(step, [hq |-> hq, j |-> 1], 1, Len(hq.queue)).hq

\* mappings without its last entry, whatever idx is.
RemoveLastMapping(mappings, idx) == SubSeq(mappings, 1, Len(mappings) - 1)

\* mappings without the entry that holds idx.
RemoveMapping(mappings, idx) ==
  LET at == CHOOSE k \in 1..Len(mappings) : mappings[k] = idx
  IN  [k \in 1..(Len(mappings) - 1) |->
         IF k < at THEN mappings[k] ELSE mappings[k + 1]]

\* A merge of the head pair that keeps the second histogram of the pair and
\* removes the first.
CombineStochasticMergeUpwards(set, used, hq, mappings) ==
  LET best_idx1 == hq.queue[1].idx2
      best_idx2 == hq.queue[1].idx1
      sum == [HistogramAdd(set.histograms[best_idx2], set.histograms[best_idx1],
                           set.histograms[best_idx1], "b")
                EXCEPT !.bit_cost = hq.queue[1].cost_combo]
      Removed(r) ==
        [set |-> r.set, num_used |-> r.num_used,
         hq |-> StochasticUpdatePairs(hq, r.set, best_idx1, best_idx2),
         mappings |-> RemoveMapping(mappings, best_idx2)]
  IN  Removed(HistogramSetRemoveHistogram(
                [set EXCEPT !.histograms[best_idx1] = sum], best_idx2, used))

\* The merge of the head pair in one iteration of
\* HistogramCombineStochastic: [set, num_used, hq, mappings].
CombineStochasticMerge(set, used, hq, mappings) ==
  LET best_idx1 == hq.queue[1].idx1
      best_idx2 == hq.queue[1].idx2
      sum == [HistogramAdd(set.histograms[best_idx2], set.histograms[best_idx1],
                           set.histograms[best_idx1], "b")
                EXCEPT !.bit_cost = hq.queue[1].cost_combo]
      Removed(r) ==
        [set |-> r.set, num_used |-> r.num_used,
         hq |-> StochasticUpdatePairs(hq, r.set, best_idx1, best_idx2),
         mappings |-> RemoveMapping(mappings, best_idx2)]
  IN  Removed(HistogramSetRemoveHistogram(
                [set EXCEPT !.histograms[best_idx1] = sum], best_idx2, used))

\* ------------------------------------------------------------------ the remap
\* The cluster a histogram goes to when the search ends one past the last.
BestOutPastEnd(out, h) == out.size

\* The cluster of least added cost for the histogram h of a tile.
BestOut(out, h) ==
  LET Better(best, k, r) ==
        IF r.ok THEN [best_out |-> k, best_bits |-> r.cost_out] ELSE best
      step(best, k) ==
        Better(best, k, HistogramAddThresh(out.histograms[k], h, best.best_bits))
  IN  FoldRange(step, [best_out |-> 0, best_bits |-> WEBP_INT64_MAX],
                0, out.size - 1).best_out

\* The first loop of HistogramRemap.
RemapSymbols(in, out, symbols_in) ==
  LET step(symbols, i) ==
        [symbols EXCEPT ![i] = IF IsNull(in.histograms[i]) THEN symbols[i - 1]
                                ELSE BestOut(out, in.histograms[i])]
  IN  FoldRange(step, symbols_in, 0, out.max_size - 1)

\* VP8LHistogramSetClear when the counts are left as they were.
VP8LHistogramSetKept(set) ==
  [set EXCEPT !.histograms =
     [i \in 0..(set.max_size - 1) |->
        IF IsNull(set.histograms[i]) THEN HistogramClear(0)
        ELSE set.histograms[i]],
              !.size = set.max_size]

\* VP8LHistogramSetClear: every histogram of the set is there again and
\* counts nothing.
VP8LHistogramSetClear(set) ==
  LET cache_bits == set.histograms[0].palette_code_bits
  IN  [set EXCEPT !.histograms =
         [i \in 0..(set.max_size - 1) |-> HistogramClear(cache_bits)],
                  !.size = set.max_size]

\* The last loop of HistogramRemap.
RemapAccumulate(in, out_set, symbols) ==
  LET step(out, i) ==
        IF IsNull(in.histograms[i]) THEN out
        ELSE LET idx == symbols[i]
             IN  [out EXCEPT !.histograms[idx] =
                    HistogramAdd(in.histograms[i], out.histograms[idx],
                                 out.histograms[idx], "b")]
  IN  FoldRange(step, out_set, 0, out_set.max_size - 1)

\* HistogramRemap: [out, symbols].
HistogramRemap(in, out, symbols_in) ==
  LET out_size == out.size
      cleared == [VP8LHistogramSetClear(out) EXCEPT !.size = out_size]
      Recomputed(symbols) ==
        [out |-> RemapAccumulate(in, cleared, symbols), symbols |-> symbols]
  IN  Recomputed(IF out_size > 1 THEN RemapSymbols(in, out, symbols_in)
                 ELSE [i \in 0..(out.max_size - 1) |-> 0])

\* ------------------------------------------------- VP8LGetHistoImageSymbols
VP8_ENC_OK == 0
VP8_ENC_ERROR_OUT_OF_MEMORY == 1
VP8_ENC_ERROR_USER_ABORT == 10

\* The fields of henc that one call of VP8LGetHistoImageSymbols starts with:
\* its arguments (tiles are the tokens of each tile, fail the allocation that
\* returns NULL, report_ok what the progress hook answers), its locals and
\* those of the passes, and the record of what was allocated, freed and merged.
Job(tiles, quality, low_effort, fail, report_ok) ==
  [pc |-> "begin", tiles |-> tiles, quality |-> quality,
   low_effort |-> low_effort, fail |-> fail, report_ok |-> report_ok,
   cur_combo |-> HistogramClear(0),
   bin_info |-> <<>>, idx |-> 0, combine_cost_factor |-> 0,
   entropy_combine |-> FALSE,
   seed |-> 1, mappings |-> <<>>, iter |-> 0, tries_with_no_success |-> 0,
   outer_iters |-> 0, num_tries_no_success |-> 0, min_cluster_size |-> 0,
   do_greedy |-> FALSE,
   error_code |-> VP8_ENC_OK, ok |-> -1,
   allocated |-> {}, freed |-> <<>>,
   merges |-> 0, failed |-> FALSE, merges_at_failure |-> 0, remapped |-> FALSE,
   outcomes |-> <<>>]

\* Whether the allocation at a site gives memory.
Allocates(site) == henc.fail # site

\* The Error label: orig_histo is freed and the result is whether
\* pic->error_code is still VP8_ENC_OK.  h is henc as the failing step left
\* it.
ReturnAtError(h) ==
  [h EXCEPT !.pc = "done",
            !.freed = IF "orig_histo" \in h.allocated
                      THEN Append(h.freed, "orig_histo") ELSE h.freed,
            !.ok = IF h.error_code = VP8_ENC_OK THEN 1 ELSE 0]

\* A failure that leaves pic->error_code as it was.
FailSilently(h) ==
  ReturnAtError([h EXCEPT !.failed = TRUE, !.merges_at_failure = h.merges])

\* WebPEncodingSetError(pic, VP8_ENC_ERROR_OUT_OF_MEMORY) then goto Error.
FailOutOfMemory(h) ==
  ReturnAtError([h EXCEPT !.error_code = VP8_ENC_ERROR_OUT_OF_MEMORY,
                          !.failed = TRUE, !.merges_at_failure = h.merges])

\* The smallest number of clusters the stochastic pass goes down to.
ThresholdSize(quality) ==
  1 + DivRound(quality * quality * quality * (MAX_HISTO_GREEDY - 1),
               100 * 100 * 100)

\* The call up to the first pass: the histograms are built, copied and
\* analyzed, and the entropy bins are set up when they are used.
GetHistoImageSymbolsBegin ==
  /\ henc.pc = "begin"
  /\ IF ~Allocates("orig_histo")
     THEN /\ henc' = FailOutOfMemory(henc)
          /\ UNCHANGED <<orig_histo, image_histo, num_used>>
     ELSE LET raw_size == image_histo.max_size
              entropy_combine_num_bins ==
                IF henc.low_effort THEN NUM_PARTITIONS ELSE BIN_SIZE
              built == HistogramBuild(henc.tiles, 0)
              r == HistogramCopyAndAnalyze(built, image_histo, raw_size)
              entropy_combine ==
                r.num_used > entropy_combine_num_bins * 2 /\ henc.quality < 100
          IN  /\ orig_histo' = r.orig
              /\ num_used' = r.num_used
              /\ image_histo' =
                   IF entropy_combine
                   THEN HistogramAnalyzeEntropyBin(r.image, henc.low_effort)
                   ELSE r.image
              /\ henc' = [henc EXCEPT
                   !.pc = IF entropy_combine THEN "bin" ELSE "stochastic",
                   !.allocated = @ \cup {"orig_histo"},
                   !.entropy_combine = entropy_combine,
                   !.combine_cost_factor =
                      GetCombineCostFactor(raw_size, henc.quality),
                   !.bin_info = [b \in 0..(entropy_combine_num_bins - 1) |->
                                   [first |-> -1, num_combine_failures |-> 0]],
                   !.idx = 0]
  /\ UNCHANGED <<histo_queue, histogram_symbols>>
  /\ UNCHANGED decvars

\* One iteration of the loop of HistogramCombineEntropyBin.
CombineEntropyBinIter ==
  /\ henc.pc = "bin"
  /\ henc.idx < image_histo.size
  /\ LET r == CombineEntropyBinStep(image_histo, num_used, henc.cur_combo,
                                    henc.bin_info, henc.idx,
                                    henc.combine_cost_factor, henc.low_effort)
     IN  /\ image_histo' = r.set
         /\ num_used' = r.num_used
         /\ henc' = [henc EXCEPT !.cur_combo = r.cur_combo,
                                 !.bin_info = r.bin_info,
                                 !.idx = @ + 1,
                                 !.merges = IF r.merged THEN @ + 1 ELSE @,
                                 !.outcomes =
                                   IF \/ henc.low_effort
                                      \/ henc.bin_info[image_histo.histograms[
                                           henc.idx].bin_id].first = -1
                                   THEN @
                                   ELSE Append(@, BinOutcome(
                                          image_histo, henc.cur_combo,
                                          henc.bin_info, henc.idx,
                                          henc.combine_cost_factor, r))]
  /\ UNCHANGED <<orig_histo, histo_queue, histogram_symbols>>
  /\ UNCHANGED decvars

\* An end of the pre-pass after which the other passes always run.
CombineEntropyBinEndToPasses ==
  /\ henc.pc = "bin"
  /\ henc.idx >= image_histo.size
  /\ image_histo' = IF henc.low_effort THEN UpdateCostsOfSet(image_histo)
                    ELSE image_histo
  /\ henc' = [henc EXCEPT !.pc = "stochastic"]
  /\ UNCHANGED <<orig_histo, num_used, histo_queue, histogram_symbols>>
  /\ UNCHANGED decvars

\* The end of HistogramCombineEntropyBin; the other passes are skipped when
\* low_effort and entropy_combine are both set.
CombineEntropyBinEnd ==
  /\ henc.pc = "bin"
  /\ henc.idx >= image_histo.size
  /\ image_histo' = IF henc.low_effort THEN UpdateCostsOfSet(image_histo)
                    ELSE image_histo
  /\ henc' = [henc EXCEPT !.pc = IF henc.low_effort THEN "remap"
                                 ELSE "stochastic"]
  /\ UNCHANGED <<orig_histo, num_used, histo_queue, histogram_symbols>>
  /\ UNCHANGED decvars

\* The indices of the histograms in use, as HistogramCombineStochastic
\* fills mappings.
InitialMappings(set) == LiveBelow(set, set.size)

\* HistogramCombineStochastic up to its loop.
CombineStochasticBegin ==
  /\ henc.pc = "stochastic"
  /\ LET min_cluster_size == ThresholdSize(henc.quality)
         outer_iters == num_used
     IN  IF num_used < min_cluster_size
         THEN /\ henc' = [henc EXCEPT !.pc = "greedy", !.do_greedy = TRUE,
                                      !.min_cluster_size = min_cluster_size]
              /\ UNCHANGED histo_queue
         ELSE IF ~Allocates("mappings")
         THEN /\ henc' = FailOutOfMemory(henc)
              /\ UNCHANGED histo_queue
         ELSE IF ~Allocates("stochastic_queue")
         THEN /\ henc' = FailOutOfMemory(
                           [henc EXCEPT !.allocated = @ \cup {"mappings"},
                                        !.freed = Append(@, "mappings")])
              /\ UNCHANGED histo_queue
         ELSE /\ histo_queue' = HistoQueueInit(kHistoQueueSize)
              /\ henc' = [henc EXCEPT
                   !.pc = "stochastic_iter",
                   !.allocated = @ \cup {"mappings", "stochastic_queue"},
                   !.min_cluster_size = min_cluster_size,
                   !.seed = 1, !.tries_with_no_success = 0,
                   !.outer_iters = outer_iters,
                   !.num_tries_no_success = outer_iters \div 2,
                   !.iter = 0,
                   !.mappings = InitialMappings(image_histo)]
  /\ UNCHANGED <<orig_histo, image_histo, num_used, histogram_symbols>>
  /\ UNCHANGED decvars

\* A loop that goes on whatever num_used is.
StochasticGoesOnBelow ==
  /\ henc.iter < henc.outer_iters
  /\ henc.tries_with_no_success + 1 < henc.num_tries_no_success

\* The condition of the loop of HistogramCombineStochastic.
StochasticGoesOn ==
  /\ henc.iter < henc.outer_iters
  /\ num_used >= henc.min_cluster_size
  /\ henc.tries_with_no_success + 1 < henc.num_tries_no_success

\* The first half of an iteration: random pairs are pushed; the iteration
\* ends there when the queue stays empty.
CombineStochasticTries ==
  /\ henc.pc = "stochastic_iter"
  /\ StochasticGoesOn
  /\ LET best_cost == IF Len(histo_queue.queue) = 0 THEN 0
                      ELSE histo_queue.queue[1].cost_diff
         r == StochasticTries(histo_queue, henc.seed, best_cost,
                              image_histo, num_used, henc.mappings)
     IN  /\ histo_queue' = r.hq
         /\ henc' = [henc EXCEPT
              !.seed = r.seed,
              !.tries_with_no_success = @ + 1,
              !.iter = IF Len(r.hq.queue) = 0 THEN @ + 1 ELSE @,
              !.pc = IF Len(r.hq.queue) = 0 THEN "stochastic_iter"
                     ELSE "stochastic_merge"]
  /\ UNCHANGED <<orig_histo, image_histo, num_used, histogram_symbols>>
  /\ UNCHANGED decvars

\* The second half: the head pair is merged and the queue updated.
CombineStochasticMergeHead ==
  /\ henc.pc = "stochastic_merge"
  /\ LET r == CombineStochasticMerge(image_histo, num_used, histo_queue,
                                     henc.mappings)
     IN  /\ image_histo' = r.set
         /\ num_used' = r.num_used
         /\ histo_queue' = r.hq
         /\ henc' = [henc EXCEPT !.mappings = r.mappings,
                                 !.tries_with_no_success = 0,
                                 !.iter = @ + 1,
                                 !.merges = @ + 1,
                                 !.pc = "stochastic_iter"]
  /\ UNCHANGED <<orig_histo, histogram_symbols>>
  /\ UNCHANGED decvars

\* What HistogramCombineStochastic frees at its End label.
FreedAtStochasticEnd == <<"stochastic_queue", "mappings">>

\* The End label of HistogramCombineStochastic after its loop.
CombineStochasticEnd ==
  /\ henc.pc = "stochastic_iter"
  /\ ~StochasticGoesOn
  /\ LET do_greedy == num_used <= henc.min_cluster_size
     IN  henc' = [henc EXCEPT !.do_greedy = do_greedy,
                              !.freed = @ \o FreedAtStochasticEnd,
                              !.pc = IF do_greedy THEN "greedy" ELSE "remap"]
  /\ histo_queue' = <<>>
  /\ UNCHANGED <<orig_histo, image_histo, num_used, histogram_symbols>>
  /\ UNCHANGED decvars

\* RemoveEmptyHistograms, then HistogramCombineGreedy up to its loop.
CombineGreedyBegin ==
  /\ henc.pc = "greedy"
  /\ LET compact == RemoveEmptyHistograms(image_histo)
     IN  /\ image_histo' = compact
         /\ IF ~Allocates("greedy_queue")
            THEN /\ henc' = FailOutOfMemory(henc)
                 /\ UNCHANGED histo_queue
            ELSE /\ histo_queue' =
                      GreedyFirstPairs(
                        HistoQueueInit(compact.size * compact.size), compact)
                 /\ henc' = [henc EXCEPT !.pc = "greedy_merge",
                                         !.allocated = @ \cup {"greedy_queue"}]
  /\ UNCHANGED <<orig_histo, num_used, histogram_symbols>>
  /\ UNCHANGED decvars

\* One turn of the loop of HistogramCombineGreedy.
CombineGreedyMerge ==
  /\ henc.pc = "greedy_merge"
  /\ Len(histo_queue.queue) > 0
  /\ LET r == CombineGreedyStep(image_histo, num_used, histo_queue)
     IN  /\ image_histo' = r.set
         /\ num_used' = r.num_used
         /\ histo_queue' = r.hq
  /\ henc' = [henc EXCEPT !.merges = @ + 1]
  /\ UNCHANGED <<orig_histo, histogram_symbols>>
  /\ UNCHANGED decvars

\* The End label of HistogramCombineGreedy after its loop.
CombineGreedyEnd ==
  /\ henc.pc = "greedy_merge"
  /\ Len(histo_queue.queue) = 0
  /\ henc' = [henc EXCEPT !.freed = Append(@, "greedy_queue"), !.pc = "remap"]
  /\ histo_queue' = <<>>
  /\ UNCHANGED <<orig_histo, image_histo, num_used, histogram_symbols>>
  /\ UNCHANGED decvars

\* The rest of the call: the clusters are compacted, every tile finds its
\* cluster, progress is reported and orig_histo is freed.
RemapAndReturn ==
  /\ henc.pc = "remap"
  /\ LET r == HistogramRemap(orig_histo, RemoveEmptyHistograms(image_histo),
                             histogram_symbols)
     IN  /\ image_histo' = r.out
         /\ histogram_symbols' = r.symbols
  /\ henc' = ReturnAtError(
               [henc EXCEPT !.remapped = TRUE,
                            !.error_code = IF henc.report_ok THEN @
                                           ELSE VP8_ENC_ERROR_USER_ABORT])
  /\ UNCHANGED <<orig_histo, num_used, histo_queue>>
  /\ UNCHANGED decvars

NextCluster ==
  \/ GetHistoImageSymbolsBegin
  \/ CombineEntropyBinIter
  \/ CombineEntropyBinEnd
  \/ CombineStochasticBegin
  \/ CombineStochasticTries
  \/ CombineStochasticMergeHead
  \/ CombineStochasticEnd
  \/ CombineGreedyBegin
  \/ CombineGreedyMerge
  \/ CombineGreedyEnd
  \/ RemapAndReturn

\* ------------------------------------------------------ the calls under study
MaxTiles == 4        \* images of 1..MaxTiles tiles
BigTile == 64        \* the tokens of a tile that costs more merged than alone

\* What a tile may hold: one colour, a mix of colours with a copy, or
\* nothing (a tile that a copy jumped over).
OneColour == Repeat(LiteralToken(0, 0, 0, 0), 2)
OtherColour == Repeat(LiteralToken(0, 1, 1, 1), 2)
Mixed == <<LiteralToken(0, 1, 2, 3), LiteralToken(0, 2, 3, 4), CopyToken(0, 1)>>
\* A big tile of one colour; its green is 0 whatever the colour.
BigColour(c) == Repeat(LiteralToken(c, c, 0, c), BigTile)

TileKinds == {OneColour, Mixed, <<>>}

\* The images: the first tile always holds the first token.
Images ==
  UNION {{t \in [1..n -> TileKinds] : t[1] # <<>>} : n \in 1..MaxTiles}

\* n tiles that hold the given kinds in turn.
Cycle(kinds, n) == [i \in 1..n |-> kinds[((i - 1) % Len(kinds)) + 1]]

\* The allocations that may fail.
AllocationSites ==
  {"none", "orig_histo", "mappings", "stochastic_queue", "greedy_queue"}

\* Every small image, clustered at quality 20 when every allocation succeeds.
SmallJobs == {Job(t, 20, FALSE, "none", TRUE) : t \in Images}

\* One image under every quality ramp, effort, failing allocation and
\* answer of the progress hook.
FaultJobs ==
  {Job(<<OneColour, <<>>, OtherColour, OneColour, Mixed>>, q, le, f, r) :
     q \in {0, 20, 100}, le \in BOOLEAN, f \in AllocationSites, r \in BOOLEAN}

\* Images with more tiles than twice the bins of the low-effort pre-pass.
LowEffortJobs ==
  {Job(Cycle(kinds, 2 * NUM_PARTITIONS + 1), 20, TRUE, "none", TRUE) :
     kinds \in {<<BigColour(0), BigColour(1), BigColour(2)>>,
                <<OneColour, Mixed, BigColour(0), <<>> >>}}

\* An image with more tiles than twice the bins of the full pre-pass.
ManyJobs ==
  {Job(Cycle(<<OneColour, OtherColour, BigColour(0), Mixed, OneColour,
               BigColour(1), Mixed>>, 2 * BIN_SIZE + 3),
       20, FALSE, "none", TRUE)}

\* Images clustered at a quality whose threshold is above two clusters.
RampJobs ==
  {Job(Cycle(kinds, 6), 30, FALSE, "none", TRUE) :
     kinds \in {<<OneColour>>, <<OneColour, OtherColour, Mixed>>}}

\* The image of ManyJobs at a quality whose threshold is just below what
\* the pre-pass leaves, so that the three passes merge in turn.
ManyRampJobs ==
  {Job(Cycle(<<OneColour, OtherColour, BigColour(0), Mixed, OneColour,
               BigColour(1), Mixed>>, 2 * BIN_SIZE + 3),
       58, FALSE, "none", TRUE)}

\* An image whose first bin rejects candidates by the trivial symbol, merges
\* one that passes that test, rejects more until the count is at its limit,
\* merges four big tiles, and then rejects by the cost.
RejectingJobs ==
  {Job(<<OneColour>> \o Repeat(OtherColour, 3) \o <<OneColour>>
         \o Repeat(OtherColour, 29) \o Repeat(BigColour(1), 4)
         \o Repeat(OtherColour, 60)
         \o Repeat(Cycle(Mixed, 21), 2 * BIN_SIZE + 3 - 98),
       20, FALSE, "none", TRUE)}

\* Low effort at the quality that switches the pre-pass off.
LowEffortBestJobs ==
  {Job(Cycle(<<OneColour, Mixed, OtherColour>>, 2 * NUM_PARTITIONS + 1),
       100, TRUE, "none", TRUE)}

InitClusterWith(jobs) ==
  /\ DecoderIdle
  /\ \E job \in jobs :
       /\ henc = job
       /\ image_histo = VP8LAllocateHistogramSet(Len(job.tiles), 0)
       /\ num_used = Len(job.tiles)
       /\ histogram_symbols = [i \in 0..(Len(job.tiles) - 1) |-> 0]
  /\ orig_histo = <<>>
  /\ histo_queue = <<>>

InitCluster ==
  InitClusterWith(SmallJobs \cup FaultJobs \cup LowEffortJobs \cup ManyJobs
                    \cup RampJobs \cup ManyRampJobs \cup LowEffortBestJobs
                    \cup RejectingJobs)

SpecCluster == InitCluster /\ [][NextCluster]_vars

\* ------------------------------------------------------- the cost of the set
\* The sum of bit_cost over the histograms of a set that are in use.
LiveCost(set) ==
  LET step(sum, i) ==
        IF IsNull(set.histograms[i]) THEN sum
        ELSE sum + set.histograms[i].bit_cost
  IN  FoldRange(step, 0, 0, set.size - 1)

\* The steps of the three passes that merge.
InPasses ==
  henc.pc \in {"bin", "stochastic", "stochastic_iter", "stochastic_merge",
               "greedy", "greedy_merge"}

\* C13 as stated: no step of the entropy-bin pre-pass, the stochastic pass
\* or the greedy pass raises the sum of bit_cost over the histograms in use,
\* whatever quality and low_effort are.
PassesNeverRaiseCost ==
  [][InPasses => LiveCost(image_histo') <= LiveCost(image_histo)]_vars

\* C13: no step of the stochastic pass, of the greedy pass or of the
\* entropy-bin pre-pass with low_effort = 0 raises the sum of bit_cost over
\* the histograms in use; the low-effort pre-pass, which merges without a
\* cost check and recomputes the costs at its end, is left out.
PassesNeverRaiseCostUnlessLowEffort ==
  [][(InPasses /\ ~(henc.pc = "bin" /\ henc.low_effort))
       => LiveCost(image_histo') <= LiveCost(image_histo)]_vars

\* A merge of the full pre-pass was accepted and another refused, and the
\* stochastic pass has merged since.
PassesNeverRaiseCostWitness ==
  /\ henc.pc = "stochastic_iter"
  /\ ~henc.low_effort
  /\ henc.entropy_combine
  /\ \E b \in DOMAIN henc.bin_info : henc.bin_info[b].num_combine_failures > 0
  /\ henc.iter >= 2
  /\ henc.merges > henc.iter
  /\ num_used < henc.outer_iters

\* ---------------------------------------------------------- the queue's head
\* C16: whenever a merge step of HistogramCombineStochastic or of
\* HistogramCombineGreedy is about to read the head of a non-empty queue,
\* no pair of the queue has a smaller cost_diff than the head.
QueueHeadIsBest ==
  (henc.pc \in {"stochastic_merge", "greedy_merge"}
     /\ Len(histo_queue.queue) > 0) =>
    \A k \in 1..Len(histo_queue.queue) :
      histo_queue.queue[1].cost_diff <= histo_queue.queue[k].cost_diff

\* After a merge, the stochastic pass is about to merge again, with pairs in
\* the queue behind the head that are worse than it and not in order.
QueueHeadIsBestWitness ==
  /\ henc.pc = "stochastic_merge"
  /\ henc.merges >= 1
  /\ Len(histo_queue.queue) >= 3
  /\ \E k \in 2..(Len(histo_queue.queue) - 1) :
       /\ histo_queue.queue[1].cost_diff < histo_queue.queue[k + 1].cost_diff
       /\ histo_queue.queue[k + 1].cost_diff < histo_queue.queue[k].cost_diff

\* ------------------------------------------------------- the queue's pairs
\* Two places of the queue hold the same pair of indices.
DuplicatePair ==
  \E j, k \in 1..Len(histo_queue.queue) :
    /\ j < k
    /\ histo_queue.queue[j].idx1 = histo_queue.queue[k].idx1
    /\ histo_queue.queue[j].idx2 = histo_queue.queue[k].idx2

\* The loop that updates the queue after a merge of the stochastic pass has
\* just ended.
AfterStochasticUpdate ==
  henc.pc = "stochastic_iter" /\ Len(histo_queue.queue) > 0

\* C29: after the queue-update loop that follows each merge in
\* HistogramCombineStochastic, no two queue entries have the same
\* (idx1, idx2).
NoDuplicatePairs == AfterStochasticUpdate => ~DuplicatePair

\* C29, amended: the pairs pruned by the queue-update loop that follows each
\* merge in HistogramCombineStochastic are those that repeat the merged pair:
\* after the loop no queue entry has both of its indices among best_idx1 and
\* best_idx2.  Two entries may hold the same (idx1, idx2), when the pairs
\* (i, best_idx1) and (i, best_idx2) were both queued; they then carry the
\* same cost_diff and cost_combo.
MergedPairPruned ==
  [][henc.pc = "stochastic_merge" =>
       LET best == {histo_queue.queue[1].idx1, histo_queue.queue[1].idx2}
           after == histo_queue'.queue
       IN  /\ \A k \in 1..Len(after) :
                ~(after[k].idx1 \in best /\ after[k].idx2 \in best)
           /\ \A j, k \in 1..Len(after) :
                (after[j].idx1 = after[k].idx1 /\ after[j].idx2 = after[k].idx2)
                  => after[j] = after[k]]_vars

\* A merge has just turned two queued pairs into the same pair.
MergedPairPrunedWitness ==
  /\ AfterStochasticUpdate
  /\ DuplicatePair
  /\ henc.merges >= 1
  /\ Len(histo_queue.queue) = 2
  /\ histo_queue.queue[1] = histo_queue.queue[2]

\* The cost of the sum of the histograms i and j of image_histo, computed
\* anew from what they hold now.
CostCombo(i, j) ==
  GetCombinedHistogramEntropy(image_histo.histograms[i],
                              image_histo.histograms[j], WEBP_INT64_MAX).cost

\* A pair of the queue is in order, joins two histograms in use and improves
\* on them by what it says.
PairIsSound(p) ==
  /\ p.idx1 < p.idx2
  /\ p.idx1 \in 0..(image_histo.size - 1)
  /\ p.idx2 \in 0..(image_histo.size - 1)
  /\ ~IsNull(image_histo.histograms[p.idx1])
  /\ ~IsNull(image_histo.histograms[p.idx2])
  /\ p.cost_diff < 0
  /\ p.cost_combo = CostCombo(p.idx1, p.idx2)
  /\ p.cost_diff = p.cost_combo - (image_histo.histograms[p.idx1].bit_cost
                                     + image_histo.histograms[p.idx2].bit_cost)

\* C30: after each merge step of HistogramCombineStochastic and of
\* HistogramCombineGreedy (and before the first), every queue entry has
\* idx1 < idx2, both indices refer to histograms in use, none to the removed
\* one, cost_diff < 0, and cost_diff and cost_combo are what the two
\* histograms give when the costs are computed again.
QueueEntriesSound ==
  henc.pc \in {"stochastic_iter", "stochastic_merge", "greedy_merge"} =>
    \A k \in 1..Len(histo_queue.queue) : PairIsSound(histo_queue.queue[k])

\* The greedy pass has merged and removed a histogram, and pairs made with
\* the merged histogram are in the queue.
QueueEntriesSoundWitness ==
  /\ henc.pc = "greedy_merge"
  /\ Len(histo_queue.queue) >= 2
  /\ \E i \in 0..(image_histo.size - 1) : IsNull(image_histo.histograms[i])
  /\ \A k \in 1..Len(histo_queue.queue) : PairIsSound(histo_queue.queue[k])

\* ------------------------------------------------- the queue of the greedy pass
\* The pairs i < j of histograms in use whose sum costs less than the two.
ImprovingPairs ==
  {ij \in (0..(image_histo.size - 1)) \X (0..(image_histo.size - 1)) :
     /\ ij[1] < ij[2]
     /\ ~IsNull(image_histo.histograms[ij[1]])
     /\ ~IsNull(image_histo.histograms[ij[2]])
     /\ CostCombo(ij[1], ij[2]) < image_histo.histograms[ij[1]].bit_cost
                                    + image_histo.histograms[ij[2]].bit_cost}

\* The pairs of indices that the queue holds.
QueuedPairs ==
  {<<histo_queue.queue[k].idx1, histo_queue.queue[k].idx2>> :
     k \in 1..Len(histo_queue.queue)}

\* The greedy pass has just left its loop.
GreedyReturned ==
  /\ henc.pc = "remap"
  /\ Len(henc.freed) > 0
  /\ henc.freed[Len(henc.freed)] = "greedy_queue"

\* C33: at every loop head of HistogramCombineGreedy the queue holds, once
\* each, exactly the pairs (i, j), i < j, of histograms in use whose combined
\* cost is strictly below bit_cost(i) + bit_cost(j); and when the pass has
\* returned no such pair is left.
GreedyQueueIsExact ==
  /\ henc.pc = "greedy_merge" =>
       /\ QueuedPairs = ImprovingPairs
       /\ Len(histo_queue.queue) = Cardinality(ImprovingPairs)
  /\ GreedyReturned => ImprovingPairs = {}

\* The greedy pass returned after a merge, with several histograms left that
\* no merge improves.
GreedyQueueIsExactWitness ==
  /\ GreedyReturned
  /\ henc.merges >= 1
  /\ num_used >= 2
  /\ ImprovingPairs = {}

\* C38: the queue of HistogramCombineGreedy never becomes full: at every
\* loop head it holds at most live * (live - 1) / 2 pairs, live being the
\* number of histograms in use, which is less than its capacity, and every
\* pair that improves is in it: no push was dropped.
GreedyQueueNeverFull ==
  henc.pc = "greedy_merge" =>
    /\ 2 * Len(histo_queue.queue) <= num_used * (num_used - 1)
    /\ Len(histo_queue.queue) < histo_queue.max_size
    /\ num_used * num_used <= histo_queue.max_size
    /\ \A ij \in ImprovingPairs : ij \in QueuedPairs

\* The queue of the greedy pass held a pair for every two histograms in use.
GreedyQueueNeverFullWitness ==
  /\ henc.pc = "greedy_merge"
  /\ num_used >= 3
  /\ 2 * Len(histo_queue.queue) = num_used * (num_used - 1)
  /\ Len(histo_queue.queue) < histo_queue.max_size

\* ------------------------------------------------------------- the mappings
\* bsearch over base[lo..hi]: the position of key, or 0 when the halving
\* does not come upon it.
RECURSIVE BSearch(_, _, _, _)
BSearch(key, base, lo, hi) ==
  IF lo > hi THEN 0
  ELSE LET mid == (lo + hi) \div 2
       IN  IF base[mid] = key THEN mid
           ELSE IF key < base[mid] THEN BSearch(key, base, lo, mid - 1)
           ELSE BSearch(key, base, mid + 1, hi)

\* The two histograms that the draw tmp of an iteration chooses.
DrawnPair(tmp) ==
  LET i1 == tmp \div (num_used - 1)
      i2r == tmp % (num_used - 1)
      i2 == IF i2r >= i1 THEN i2r + 1 ELSE i2r
  IN  [idx1 |-> henc.mappings[i1 + 1], idx2 |-> henc.mappings[i2 + 1]]

\* The indices of the histograms of image_histo that are in use.
LiveIndices ==
  {i \in 0..(image_histo.size - 1) : ~IsNull(image_histo.histograms[i])}

\* C39: at the start of every outer iteration of HistogramCombineStochastic,
\* mappings[0..num_used) is strictly increasing and holds exactly the
\* indices of the histograms in use; every draw tmp below
\* num_used * (num_used - 1) chooses two different histograms in use; and
\* when a merge follows, bsearch finds best_idx2 in mappings.
MappingsEnumerateLive ==
  /\ henc.pc \in {"stochastic_iter", "stochastic_merge"} =>
       /\ Len(henc.mappings) = num_used
       /\ \A k \in 1..(num_used - 1) : henc.mappings[k] < henc.mappings[k + 1]
       /\ {henc.mappings[k] : k \in 1..num_used} = LiveIndices
  /\ henc.pc = "stochastic_iter" =>
       \A tmp \in 0..(num_used * (num_used - 1) - 1) :
         /\ DrawnPair(tmp).idx1 # DrawnPair(tmp).idx2
         /\ {DrawnPair(tmp).idx1, DrawnPair(tmp).idx2} \subseteq LiveIndices
  /\ henc.pc = "stochastic_merge" =>
       LET at == BSearch(histo_queue.queue[1].idx2, henc.mappings, 1, num_used)
       IN  /\ at # 0
           /\ henc.mappings[at] = histo_queue.queue[1].idx2

\* An iteration starts after two merges have taken entries that were not
\* the last out of mappings, with three histograms or more still in use.
MappingsEnumerateLiveWitness ==
  /\ henc.pc = "stochastic_iter"
  /\ henc.merges >= 2
  /\ num_used >= 3
  /\ henc.mappings[num_used] = image_histo.size - 1
  /\ StochasticGoesOn

\* ---------------------------------------------------- the forced merges
\* What happened to the candidates of bin b, in the order of the loop.
OutcomesOf(b) == SelectSeq(henc.outcomes, LAMBDA o : o.bin = b)

\* The candidates before position p that passed the cost test and were
\* rejected for their trivial symbol.
TrivialRejections(H, p) ==
  Cardinality({q \in 1..(p - 1) : H[q].cost_ok /\ ~H[q].merged})

\* C35, as stated: in the pre-pass without low_effort, after 32 consecutive
\* rejections within a bin the next candidate of that bin is merged into the
\* bin's first tile, whatever the cost test and the trivial-symbol test say.
MergeForcedWhateverTheTests ==
  \A b \in DOMAIN henc.bin_info :
    LET H == OutcomesOf(b)
    IN  \A p \in 33..Len(H) :
          (\A q \in (p - 32)..(p - 1) : ~H[q].merged) => H[p].merged

\* C35, amended: in the pre-pass without low_effort, once 32 candidates of
\* a bin have passed the cost test and been rejected by the trivial-symbol
\* test (consecutive or not: the count is kept for the bin and never
\* reset), every later candidate of that bin that passes the cost test is
\* merged into the bin's first tile whatever the trivial-symbol test says;
\* before that, a candidate is merged exactly when it passes both tests; a
\* candidate that fails the cost test is never merged and is not counted.
MergeForcedWhenCostAllows ==
  \A b \in DOMAIN henc.bin_info :
    LET H == OutcomesOf(b)
    IN  \A p \in 1..Len(H) :
          H[p].merged <=>
            /\ H[p].cost_ok
            /\ H[p].try_combine \/ TrivialRejections(H, p) >= 32

\* A bin has rejected 32 candidates for their trivial symbol, with a merge
\* in between, has then merged one that fails that test, and has rejected a
\* later one by the cost.
MergeForcedWhenCostAllowsWitness ==
  \E b \in DOMAIN henc.bin_info :
    LET H == OutcomesOf(b)
    IN  \E p, q, m \in 1..Len(H) :
          /\ m < p /\ p < q
          /\ H[m].merged /\ H[m].try_combine
          /\ TrivialRejections(H, m) > 0
          /\ TrivialRejections(H, p) = 32
          /\ H[p].merged /\ ~H[p].try_combine
          /\ ~H[q].cost_ok /\ ~H[q].merged

\* ------------------------------------------------------- the kept histogram
\* A step that merges removes one histogram, and the sum is held by a
\* histogram of lower index; the others are as they were.
MergeKeepsLower ==
  henc'.merges = henc.merges + 1 =>
    \E removed \in Live(image_histo), kept \in Live(image_histo') :
      /\ Live(image_histo') = Live(image_histo) \ {removed}
      /\ kept < removed
      /\ image_histo'.histograms[kept] # image_histo.histograms[kept]
      /\ \A c \in 0..(NumLiteralCodes - 1) :
           image_histo'.histograms[kept].red[c] =
             image_histo.histograms[kept].red[c]
               + image_histo.histograms[removed].red[c]
      /\ \A i \in Live(image_histo') \ {kept} :
           image_histo'.histograms[i] = image_histo.histograms[i]

\* The first histogram is in use and HistogramRemap gets a cluster at least.
FirstStays ==
  /\ ~IsNull(image_histo.histograms[0])
  /\ num_used >= 1
  /\ image_histo.size >= 1
  /\ henc.pc = "remap" => RemoveEmptyHistograms(image_histo).size >= 1

\* C40: every merge of the entropy-bin pre-pass, of the stochastic pass and
\* of the greedy pass keeps the histogram of lower index and removes the one
\* of higher index; slot 0 of image_histo is never removed, num_used >= 1
\* and image_histo->size >= 1 hold throughout, and HistogramRemap is entered
\* with out_size >= 1.
LowerIndexIsKept == []FirstStays /\ [][MergeKeepsLower]_vars

\* The greedy pass is merging, after the pre-pass and the stochastic pass
\* have, and has left a hole above slot 0.
LowerIndexIsKeptWitness ==
  /\ henc.pc = "greedy_merge"
  /\ henc.entropy_combine
  /\ "stochastic_queue" \in henc.allocated
  /\ henc.merges >= 3
  /\ \E i \in 1..(image_histo.size - 1) : IsNull(image_histo.histograms[i])
  /\ ~IsNull(image_histo.histograms[0])

\* ----------------------------------------------------------- low effort
\* The stochastic or the greedy pass is running, or has run.
PassesInvoked ==
  \/ henc.pc \in {"stochastic_iter", "stochastic_merge", "greedy", "greedy_merge"}
  \/ henc.min_cluster_size > 0
  \/ henc.allocated \cap {"mappings", "stochastic_queue", "greedy_queue"} # {}

\* With low_effort, and the pre-pass having run unless always is set, no
\* other pass is invoked and the pre-pass has NUM_PARTITIONS bins; in every
\* other call that gets to the remap the stochastic pass was invoked.
LowEffortSkips(always) ==
  /\ (henc.low_effort /\ (always \/ henc.entropy_combine)) => ~PassesInvoked
  /\ (henc.low_effort /\ henc.entropy_combine) =>
       DOMAIN henc.bin_info = 0..(NUM_PARTITIONS - 1)
  /\ (henc.remapped /\ ~(henc.low_effort /\ henc.entropy_combine)) =>
       henc.min_cluster_size > 0

Succeeded == henc.pc = "done" /\ henc.ok = 1

\* Tile i holds no token.
Absent(i) == henc.tiles[i + 1] = <<>>

\* C11: when VP8LGetHistoImageSymbols succeeds, the symbol of every tile is
\* the index of a final cluster, a tile without tokens has the symbol of the
\* tile before it, and tile 0 is never without tokens.
SymbolsAreClusters ==
  Succeeded =>
    \A i \in 0..(Len(henc.tiles) - 1) :
      /\ 0 <= histogram_symbols[i]
      /\ histogram_symbols[i] < image_histo.size
      /\ Absent(i) <=> IsNull(orig_histo.histograms[i])
      /\ Absent(i) => i > 0 /\ histogram_symbols[i] = histogram_symbols[i - 1]

\* A tile without tokens took a symbol other than 0 from the tile before it.
SymbolsAreClustersWitness ==
  /\ Succeeded
  /\ image_histo.size >= 2
  /\ \E i \in 1..(Len(henc.tiles) - 1) :
       /\ Absent(i)
       /\ histogram_symbols[i] >= 1
       /\ histogram_symbols[i] = histogram_symbols[i - 1]

\* ------------------------------------------------------ the counts of clusters
\* How many times a token counts for symbol s of a class (literal 0, red 1,
\* blue 2, alpha 3, distance 4).
TokenCount(v, index, s) ==
  IF v.is_literal
  THEN IF \/ index = 0 /\ s = v.g
          \/ index = 1 /\ s = v.r
          \/ index = 2 /\ s = v.b
          \/ index = 3 /\ s = v.a
       THEN 1 ELSE 0
  ELSE IF \/ index = 0 /\ s = NumLiteralCodes + v.code
          \/ index = 4 /\ s = v.dist
       THEN 1 ELSE 0

\* The count of symbol s of a class over the tokens of the tiles whose
\* symbol is k.
TilesCount(k, index, s) ==
  LET tile(sum, i) ==
        LET token(n, t) == n + TokenCount(henc.tiles[i + 1][t], index, s)
        IN  IF histogram_symbols[i] = k
            THEN FoldRange(token, sum, 1, Len(henc.tiles[i + 1]))
            ELSE sum
  IN  FoldRange(tile, 0, 0, Len(henc.tiles) - 1)

\* C12: after HistogramRemap every final cluster counts, for every symbol of
\* every class, what the tokens of the tiles with its index count, so all
\* the clusters together count what all the tiles count.
ClustersAreSumsOfTiles ==
  Succeeded =>
    /\ \A k \in 0..(image_histo.size - 1) : \A index \in 0..4 :
         \A s \in 0..(ClassLength(index, 0) - 1) :
           Population(image_histo.histograms[k], index)[s]
             = TilesCount(k, index, s)
    /\ \A i \in 0..(Len(henc.tiles) - 1) :
         histogram_symbols[i] \in 0..(image_histo.size - 1)

\* Two clusters are left, one of them for more than one tile.
ClustersAreSumsOfTilesWitness ==
  /\ Succeeded
  /\ image_histo.size >= 2
  /\ \E i, j, m \in 0..(Len(henc.tiles) - 1) :
       /\ i < j /\ ~Absent(i) /\ ~Absent(j) /\ ~Absent(m)
       /\ histogram_symbols[i] = histogram_symbols[j]
       /\ histogram_symbols[m] # histogram_symbols[i]

\* --------------------------------------------------- allocations that fail
\* How many times a buffer was freed.
TimesFreed(buffer) ==
  Cardinality({k \in 1..Len(henc.freed) : henc.freed[k] = buffer})

\* C18: when the allocation of mappings, of the queue of the stochastic
\* pass or of the queue of the greedy pass fails, no merge follows, the call
\* sets VP8_ENC_ERROR_OUT_OF_MEMORY and returns 0 without HistogramRemap,
\* and what was allocated is freed once.
AllocationFailureAborts ==
  (henc.pc = "done" /\ henc.failed
     /\ henc.fail \in {"mappings", "stochastic_queue", "greedy_queue"}) =>
    /\ henc.merges = henc.merges_at_failure
    /\ henc.error_code = VP8_ENC_ERROR_OUT_OF_MEMORY
    /\ henc.ok = 0
    /\ ~henc.remapped
    /\ \A i \in DOMAIN histogram_symbols : histogram_symbols[i] = 0
    /\ "orig_histo" \in henc.allocated
    /\ \A buffer \in henc.allocated : TimesFreed(buffer) = 1
    /\ \A k \in 1..Len(henc.freed) : henc.freed[k] \in henc.allocated

\* The queue of the greedy pass could not be allocated after the
\* stochastic pass had merged and freed its own buffers.
AllocationFailureAbortsWitness ==
  /\ henc.pc = "done"
  /\ henc.failed
  /\ henc.fail = "greedy_queue"
  /\ henc.merges >= 1
  /\ henc.freed = <<"stochastic_queue", "mappings", "orig_histo">>

\* ------------------------------------------- the end of the stochastic pass
\* A step of the stochastic pass that merges two histograms.
StochasticMerges == henc.pc = "stochastic_merge" /\ num_used' < num_used

\* A step that leaves the stochastic pass after its loop.
StochasticReturns ==
  henc.pc = "stochastic_iter" /\ henc'.pc \in {"greedy", "remap"}

\* What the stochastic pass does around its threshold: a merge happens only
\* with num_used beyond floor, the loop is left only with num_used below
\* ceiling, after outer_iters iterations or with the failures spent, and
\* do_greedy is set exactly when num_used <= min_cluster_size at the end.
StochasticStopsAt(floor, ceiling) ==
  /\ StochasticMerges => num_used > henc.min_cluster_size + floor
  /\ StochasticReturns =>
       /\ \/ num_used < henc.min_cluster_size + ceiling
          \/ henc.iter >= henc.outer_iters
          \/ henc.tries_with_no_success + 1 >= henc.num_tries_no_success
       /\ henc'.do_greedy = (num_used <= henc.min_cluster_size)
  /\ (henc.pc = "stochastic_iter" /\ num_used < henc.min_cluster_size + ceiling)
       => henc'.pc # "stochastic_merge"

\* C31, as stated: HistogramCombineStochastic merges nothing once
\* num_used <= min_cluster_size; it ends when num_used <= min_cluster_size or
\* when the failures are spent, and sets do_greedy exactly when it ends with
\* num_used <= min_cluster_size.
NoMergeAtMinClusterSize == [][StochasticStopsAt(0, 1)]_vars

\* C31, amended: HistogramCombineStochastic merges nothing once
\* num_used < min_cluster_size; it ends when num_used < min_cluster_size,
\* after outer_iters iterations or when the failures are spent, and sets
\* do_greedy exactly when it ends with num_used <= min_cluster_size.
NoMergeBelowMinClusterSize == [][StochasticStopsAt(-1, 0)]_vars

\* The pass merged with num_used = min_cluster_size, ended below it and
\* asked for the greedy pass.
NoMergeBelowMinClusterSizeWitness ==
  /\ henc.pc = "greedy"
  /\ henc.merges >= 1
  /\ henc.do_greedy
  /\ num_used = henc.min_cluster_size - 1
  /\ "stochastic_queue" \in henc.allocated

\* -------------------------------------------------- the passes come to an end
\* The counters of the two passes stay within their bounds: the stochastic
\* pass is in at most its outer_iters-th iteration, and the greedy pass has a
\* pair to merge only while two histograms are left.
PassesBounded ==
  /\ henc.pc = "stochastic_iter" => henc.iter <= henc.outer_iters
  /\ henc.pc = "stochastic_merge" => henc.iter < henc.outer_iters
  /\ henc.pc = "greedy_merge" =>
       /\ num_used >= 1
       /\ henc.merges <= Len(henc.tiles) - 1
       /\ Len(histo_queue.queue) > 0 => num_used >= 2

\* Every iteration of the stochastic pass counts, and every turn of the
\* greedy loop removes exactly one histogram.
PassesAdvance ==
  /\ (henc.pc = "stochastic_iter" /\ henc'.pc = "stochastic_iter")
       => henc'.iter = henc.iter + 1
  /\ henc.pc = "stochastic_merge" => henc'.iter = henc.iter + 1
  /\ (henc.pc = "greedy_merge" /\ henc'.pc = "greedy_merge") =>
       /\ num_used' = num_used - 1
       /\ Cardinality(Live(image_histo')) = Cardinality(Live(image_histo)) - 1

\* C32: both merge passes come to an end on every input: every iteration
\* of the stochastic pass adds one to a count that never exceeds
\* outer_iters, and every turn of the greedy loop removes one of the
\* histograms left, of which there is always one, so that it merges at most
\* image_histo_size - 1 times.
PassesTerminate == []PassesBounded /\ [][PassesAdvance]_vars

\* A call returned after a stochastic pass that iterated and a greedy pass
\* that merged down to one histogram.
PassesTerminateWitness ==
  /\ henc.pc = "done"
  /\ henc.ok = 1
  /\ henc.iter >= 2
  /\ {"stochastic_queue", "greedy_queue"} \subseteq henc.allocated
  /\ henc.merges >= 3
  /\ num_used = 1

NumIdentical == 100      \* the tiles of an image whose tiles are all alike

\* Images of NumIdentical tiles that all hold the same tokens.
IdenticalJobs ==
  {Job([i \in 1..NumIdentical |-> tile], 75, FALSE, "none", TRUE) :
     tile \in {OneColour, Mixed}}

InitIdentical == InitClusterWith(IdenticalJobs)

\* Fewer tiles than twice the bins: the entropy-bin pre-pass does not run.
NextIdentical ==
  \/ GetHistoImageSymbolsBegin
  \/ CombineStochasticBegin
  \/ CombineStochasticTries
  \/ CombineStochasticMergeHead
  \/ CombineStochasticEnd
  \/ CombineGreedyBegin
  \/ CombineGreedyMerge
  \/ CombineGreedyEnd
  \/ RemapAndReturn

SpecIdentical == InitIdentical /\ [][NextIdentical]_vars

\* C15: at quality 75 and low_effort 0, an image of 100 tiles with the same
\* histogram ends as one cluster, and every tile has symbol 0.
IdenticalTilesCollapse ==
  henc.pc = "done" =>
    /\ henc.ok = 1
    /\ image_histo.size = 1
    /\ \A i \in 0..(NumIdentical - 1) : histogram_symbols[i] = 0

\* The stochastic pass stopped below the ramp's threshold and the greedy
\* pass merged what was left, one histogram at a time.
IdenticalTilesCollapseWitness ==
  /\ henc.pc = "done"
  /\ henc.do_greedy
  /\ henc.min_cluster_size = ThresholdSize(75)
  /\ henc.min_cluster_size < NumIdentical
  /\ henc.merges = NumIdentical - 1
  /\ num_used = 1
  /\ henc.freed = <<"stochastic_queue", "mappings", "greedy_queue", "orig_histo">>

====
